---- MODULE Spec2Model ----
EXTENDS Integers, Sequences, FiniteSets, TLC

(***************************************************************************)
(* LiveNeuro: 2D brain-activity viewer.                                    *)
(*                                                                         *)
(* Units of the model (all numbers are integers):                          *)
(*   coordinates : multiples of 1e-7 m   (0.001 m = 10000, 0.01 m = 100000)*)
(*   time        : multiples of 1 ms     (0.137 s = 137)                   *)
(*   activity    : multiples of 1e-4     (1.0 = 10000)                     *)
(* Python indices are 0-based; sequences of the model are 1-based, so an   *)
(* index i of the code reads element i + 1.                                *)
(***************************************************************************)

\* Number of sources N of the input tensor.
NumSources == 3

\* Python's None for an optional integer (selected source, customdata).
None == -1

Abs(a) == IF a < 0 THEN -a ELSE a

SetMax(S) == CHOOSE m \in S : \A o \in S : o <= m

SetMin(S) == CHOOSE m \in S : \A o \in S : m <= o

Range(f) == {f[i] : i \in DOMAIN f}

RECURSIVE SortedSeq(_)
\* np.unique: the distinct values in increasing order.
SortedSeq(S) ==
    IF S = {} THEN <<>>
    ELSE LET m == SetMin(S) IN <<m>> \o SortedSeq(S \ {m})

\* Integer square root; exact on the perfect squares the inputs produce.
ISqrt(n) == CHOOSE r \in 0..n : r * r <= n /\ n < (r + 1) * (r + 1)

RECURSIVE SumSq(_)
SumSq(v) == IF v = <<>> THEN 0 ELSE Head(v) * Head(v) + SumSq(Tail(v))

\* np.linalg.norm of one source's component vector (length 3 or 1).
Norm(v) == ISqrt(SumSq(v))

\* An argmin that returns the last of several equal minima.
ArgMinAbsLast(time_values, x) ==
    LET d == [i \in DOMAIN time_values |-> Abs(time_values[i] - x)]
        best == SetMin(Range(d))
    IN  SetMax({i \in DOMAIN d : d[i] = best}) - 1

\* np.argmin(np.abs(time_values - x)): 0-based index of the first minimum.
ArgMinAbs(time_values, x) ==
    LET d == [i \in DOMAIN time_values |-> Abs(time_values[i] - x)]
        best == SetMin(Range(d))
    IN  SetMin({i \in DOMAIN d : d[i] = best}) - 1

\* Python sequence indexing with negative indices; Len(s) marks IndexError.
PyIndex(n, i) == IF i >= 0 THEN i ELSE n + i

PyIndexOk(n, i) == PyIndex(n, i) >= 0 /\ PyIndex(n, i) < n

(***************************************************************************)
(* Display modes                                                           *)
(***************************************************************************)

ViewIds == {"sagittal", "coronal", "axial", "left_hemisphere", "right_hemisphere"}

SupportedModes ==
    {"ortho", "x", "y", "z", "xz", "yx", "yz", "l", "r", "lr", "lzr", "lyr",
     "lzry", "lyrz"}

mode_mapping ==
    [ortho |-> <<"sagittal", "coronal", "axial">>,
     x     |-> <<"sagittal">>,
     y     |-> <<"coronal">>,
     z     |-> <<"axial">>,
     xz    |-> <<"sagittal", "axial">>,
     yx    |-> <<"coronal", "sagittal">>,
     yz    |-> <<"coronal", "axial">>,
     l     |-> <<"left_hemisphere">>,
     r     |-> <<"right_hemisphere">>,
     lr    |-> <<"left_hemisphere", "right_hemisphere">>,
     lzr   |-> <<"left_hemisphere", "axial", "right_hemisphere">>,
     lyr   |-> <<"left_hemisphere", "coronal", "right_hemisphere">>,
     lzry  |-> <<"left_hemisphere", "axial", "right_hemisphere", "coronal">>,
     lyrz  |-> <<"left_hemisphere", "coronal", "right_hemisphere", "axial">>]

\* A mode table with the two views of "yx" exchanged.
parse_display_mode_swapped(mode) ==
    IF mode \in DOMAIN mode_mapping
    THEN [ok |-> TRUE,
          views |-> IF mode = "yx" THEN <<"sagittal", "coronal">>
                    ELSE mode_mapping[mode]]
    ELSE [ok |-> FALSE, views |-> <<>>]

\* _parse_display_mode: the view list, or ok = FALSE for the ValueError.
parse_display_mode(mode) ==
    IF mode \in DOMAIN mode_mapping
    THEN [ok |-> TRUE, views |-> mode_mapping[mode]]
    ELSE [ok |-> FALSE, views |-> <<>>]

\* LAYOUTS registry.
LAYOUTS == {"vertical", "horizontal"}

(***************************************************************************)
(* Data loading                                                            *)
(***************************************************************************)

\* The loader if scalar data were padded to three components (v, 0, 0).
load_ndvar_data_three_components(y) ==
    IF y.has_space
        THEN [glass_brain_data |-> y.data,
              butterfly_data |->
                  [s \in DOMAIN y.data |-> [k \in DOMAIN y.data[s][1] |->
                      Norm([c \in 1..3 |-> y.data[s][c][k]])]],
              source_coords |-> y.coords,
              time_values |-> y.times]
        ELSE [glass_brain_data |->
                  [s \in DOMAIN y.data |-> [c \in 1..3 |->
                      IF c = 1 THEN y.data[s] ELSE [k \in DOMAIN y.data[s] |-> 0]]],
              butterfly_data |-> y.data,
              source_coords |-> y.coords,
              time_values |-> y.times]

\* _load_ndvar_data: y = [coords, times, has_space, data]; data is
\* [source][component][time] with has_space, [source][time] without.
\* Coordinates, time axis and activity array are taken from y as they are:
\* their lengths are not compared.
load_ndvar_data(y) ==
    IF y.has_space
        THEN [glass_brain_data |-> y.data,
              butterfly_data |->
                  [s \in DOMAIN y.data |-> [k \in DOMAIN y.data[s][1] |->
                      Norm([c \in 1..3 |-> y.data[s][c][k]])]],
              source_coords |-> y.coords,
              time_values |-> y.times]
        ELSE [glass_brain_data |->
                  [s \in DOMAIN y.data |-> [c \in 1..1 |-> y.data[s]]],
              butterfly_data |-> y.data,
              source_coords |-> y.coords,
              time_values |-> y.times]

(***************************************************************************)
(* View ranges and colour range (computed once by the constructor)         *)
(* Range bounds are kept in 1/40 of the coordinate unit, so that the 5 %   *)
(* padding and the halving of widths are exact.                            *)
(***************************************************************************)

\* The horizontal coordinate without the flip of the left hemisphere.
RangeCoordX_unflipped(view_name, c) ==
    CASE view_name = "axial" -> c[1]
      [] view_name = "sagittal" -> c[2]
      [] view_name = "coronal" -> c[1]
      [] view_name = "left_hemisphere" -> c[2]
      [] view_name = "right_hemisphere" -> c[2]
      [] OTHER -> c[1]

\* Horizontal coordinate of a source in a view (lines 193-215).
RangeCoordX(view_name, c) ==
    CASE view_name = "axial" -> c[1]
      [] view_name = "sagittal" -> c[2]
      [] view_name = "coronal" -> c[1]
      [] view_name = "left_hemisphere" -> -c[2]
      [] view_name = "right_hemisphere" -> c[2]
      [] OTHER -> c[1]

\* Vertical coordinate of a source in a view (lines 193-215).
RangeCoordY(view_name, c) ==
    CASE view_name = "axial" -> c[2]
      [] view_name = "sagittal" -> c[3]
      [] view_name = "coronal" -> c[3]
      [] view_name = "left_hemisphere" -> c[3]
      [] view_name = "right_hemisphere" -> c[3]
      [] OTHER -> c[2]

\* The padding taken as 5 % of the extent even when the extent is zero.
PaddedRange_no_epsilon(vals) ==
    LET lo == SetMin(vals)
        hi == SetMax(vals)
    IN  <<40 * lo - 2 * (hi - lo), 40 * hi + 2 * (hi - lo)>>

\* [min - padding, max + padding], padding = 5 % of the extent or 0.01.
PaddedRange(vals) ==
    LET lo == SetMin(vals)
        hi == SetMax(vals)
        extent == hi - lo
        padding == IF extent > 0 THEN 2 * extent ELSE 40 * 100000
    IN  <<40 * lo - padding, 40 * hi + padding>>

\* _calculate_view_ranges: one box per view, from ALL source coordinates.
calculate_view_ranges(source_coords, brain_views) ==
    [view_name \in Range(brain_views) |->
        [x |-> PaddedRange({RangeCoordX(view_name, source_coords[s]) :
                               s \in DOMAIN source_coords}),
         y |-> PaddedRange({RangeCoordY(view_name, source_coords[s]) :
                               s \in DOMAIN source_coords})]]

\* The unification with boxes reaching the full width to either side of
\* the centre.
unify_view_sizes_for_jupyter_full_width(view_ranges) ==
    IF DOMAIN view_ranges = {} THEN view_ranges
    ELSE
    LET max_x_width == SetMax({view_ranges[v].x[2] - view_ranges[v].x[1] :
                                  v \in DOMAIN view_ranges})
        max_y_width == SetMax({view_ranges[v].y[2] - view_ranges[v].y[1] :
                                  v \in DOMAIN view_ranges})
        max_width == IF max_x_width >= max_y_width THEN max_x_width
                     ELSE max_y_width
    IN  [v \in DOMAIN view_ranges |->
            LET x_center == (view_ranges[v].x[1] + view_ranges[v].x[2]) \div 2
                y_center == (view_ranges[v].y[1] + view_ranges[v].y[2]) \div 2
            IN  [x |-> <<x_center - max_width, x_center + max_width>>,
                 y |-> <<y_center - max_width, y_center + max_width>>]]

\* _unify_view_sizes_for_jupyter: every box recentred to the largest width.
unify_view_sizes_for_jupyter(view_ranges) ==
    IF DOMAIN view_ranges = {} THEN view_ranges
    ELSE
    LET max_x_width == SetMax({view_ranges[v].x[2] - view_ranges[v].x[1] :
                                  v \in DOMAIN view_ranges})
        max_y_width == SetMax({view_ranges[v].y[2] - view_ranges[v].y[1] :
                                  v \in DOMAIN view_ranges})
        max_width == IF max_x_width >= max_y_width THEN max_x_width
                     ELSE max_y_width
    IN  [v \in DOMAIN view_ranges |->
            LET x_center == (view_ranges[v].x[1] + view_ranges[v].x[2]) \div 2
                y_center == (view_ranges[v].y[1] + view_ranges[v].y[2]) \div 2
            IN  [x |-> <<x_center - max_width \div 2, x_center + max_width \div 2>>,
                 y |-> <<y_center - max_width \div 2, y_center + max_width \div 2>>]]

\* The colour range without the zero-range guard.
calculate_global_colormap_range_unguarded(glass_brain_data, user_vmax) ==
    LET all_magnitudes ==
            {Norm([c \in DOMAIN glass_brain_data[s] |-> glass_brain_data[s][c][k]]) :
                s \in DOMAIN glass_brain_data,
                k \in DOMAIN glass_brain_data[1][1]}
    IN  <<0, IF user_vmax.given THEN user_vmax.value ELSE SetMax(all_magnitudes)>>

\* The colour range with a guard that widens by one activity unit, not by 1.0.
calculate_global_colormap_range_unit_guard(glass_brain_data, user_vmax) ==
    LET range == calculate_global_colormap_range_unguarded(glass_brain_data, user_vmax)
    IN  IF range[2] - range[1] <= 0 THEN <<range[1], range[1] + 1>> ELSE range

\* _calculate_global_colormap_range; user_vmax = [given, value].
calculate_global_colormap_range(glass_brain_data, user_vmax) ==
    LET all_magnitudes ==
            {Norm([c \in DOMAIN glass_brain_data[s] |-> glass_brain_data[s][c][k]]) :
                s \in DOMAIN glass_brain_data,
                k \in DOMAIN glass_brain_data[1][1]}
        data_max == SetMax(all_magnitudes)
        global_vmin == 0
        global_vmax == IF user_vmax.given THEN user_vmax.value ELSE data_max
    IN  IF global_vmax - global_vmin <= 0
        THEN <<global_vmin, global_vmin + 10000>>
        ELSE <<global_vmin, global_vmax>>

(***************************************************************************)
(* Projection renderer                                                     *)
(* viz is the viewer instance: [glass_brain_data, butterfly_data,          *)
(* source_coords, time_values, brain_views, layout_mode, arrow_threshold,  *)
(* show_max_only, view_ranges, global_vmin, global_vmax].                  *)
(* Sources are named by their 0-based index; grid edges and centres are    *)
(* kept in 1/4 of the coordinate unit so that halves are exact.            *)
(***************************************************************************)

\* binned_statistic_2d leaves NaN in a bin without samples.
NaN == <<>>

\* The hemisphere masks with strict comparisons: midline sources in neither.
ActiveIndices_strict(view_name, coords) ==
    LET all == {s - 1 : s \in DOMAIN coords}
        mask == CASE view_name = "left_hemisphere" ->
                         {i \in all : coords[i + 1][1] < 0}
                  [] view_name = "right_hemisphere" ->
                         {i \in all : coords[i + 1][1] > 0}
                  [] OTHER -> all
    IN  IF mask /= {} THEN mask ELSE all

\* active_indices after the hemisphere mask; the mask is applied only if
\* np.any(mask), otherwise every source stays.
ActiveIndices(view_name, coords) ==
    LET all == {s - 1 : s \in DOMAIN coords}
        mask == CASE view_name = "left_hemisphere" ->
                         {i \in all : coords[i + 1][1] <= 0}
                  [] view_name = "right_hemisphere" ->
                         {i \in all : coords[i + 1][1] >= 0}
                  [] OTHER -> all
    IN  IF mask /= {} THEN mask ELSE all

\* x_coords of the projection.
ProjX(view_name, c) ==
    CASE view_name = "axial" -> c[1]
      [] view_name = "sagittal" -> c[2]
      [] view_name = "coronal" -> c[1]
      [] view_name = "left_hemisphere" -> -c[2]
      [] view_name = "right_hemisphere" -> c[2]
      [] OTHER -> c[1]

\* y_coords of the projection.
ProjY(view_name, c) ==
    CASE view_name = "axial" -> c[2]
      [] view_name = "sagittal" -> c[3]
      [] view_name = "coronal" -> c[3]
      [] view_name = "left_hemisphere" -> c[3]
      [] view_name = "right_hemisphere" -> c[3]
      [] OTHER -> c[2]

\* u_vectors: the horizontal component of a 3-vector in the view.
ProjU(view_name, w) ==
    CASE view_name = "axial" -> w[1]
      [] view_name = "sagittal" -> w[2]
      [] view_name = "coronal" -> w[1]
      [] view_name = "left_hemisphere" -> -w[2]
      [] view_name = "right_hemisphere" -> w[2]
      [] OTHER -> w[1]

\* v_vectors: the vertical component of a 3-vector in the view.
ProjV(view_name, w) ==
    CASE view_name = "axial" -> w[2]
      [] view_name = "sagittal" -> w[3]
      [] view_name = "coronal" -> w[3]
      [] view_name = "left_hemisphere" -> w[3]
      [] view_name = "right_hemisphere" -> w[3]
      [] OTHER -> w[2]

\* Twice the grid spacing: np.diff(unique).min(), or 2 * 0.001 for one value.
TwiceSpacing(unique) ==
    IF Len(unique) > 1
    THEN SetMin({unique[i + 1] - unique[i] : i \in 1..(Len(unique) - 1)})
    ELSE 2 * 10000

\* x_edges / y_edges: first value - spacing, then every value + spacing.
GridEdges(unique) ==
    LET d == TwiceSpacing(unique)
    IN  [i \in 1..(Len(unique) + 1) |->
            IF i = 1 THEN 4 * unique[1] - 2 * d ELSE 4 * unique[i - 1] + 2 * d]

\* Bin of value c (coordinate units) in the edges: half-open bins, the last
\* one closed on the right; 0 when c lies outside every bin.
BinOf(c, edges) ==
    LET nbins == Len(edges) - 1
        hits == {i \in 1..nbins :
                    /\ edges[i] <= 4 * c
                    /\ \/ 4 * c < edges[i + 1]
                       \/ i = nbins /\ 4 * c = edges[i + 1]}
    IN  IF hits = {} THEN 0 ELSE SetMin(hits)

\* The statistic of one bin taken as the sum of its samples.
BinStatisticSum(samples) ==
    IF samples = <<>> THEN NaN
    ELSE LET S[k \in 0..Len(samples)] ==
                 IF k = 0 THEN 0 ELSE S[k - 1] + samples[k]
         IN  <<S[Len(samples)]>>

\* statistic="max" of one bin: NaN when empty, else the largest sample.
BinStatistic(samples) ==
    IF samples = <<>> THEN NaN ELSE <<SetMax(Range(samples))>>

\* show_arrow_mask: None keeps all, "auto" keeps magnitude > 10 % of the
\* largest magnitude of the rendered sources, a number keeps magnitude > it.
ShowArrowMask(arrow_threshold, arrow_magnitudes) ==
    LET largest == SetMax(Range(arrow_magnitudes))
    IN  [i \in DOMAIN arrow_magnitudes |->
            CASE arrow_threshold.kind = "none" -> TRUE
              [] arrow_threshold.kind = "auto" -> 10 * arrow_magnitudes[i] > largest
              [] OTHER -> arrow_magnitudes[i] > arrow_threshold.value]

\* round(x, 6): metres to 6 decimals is the nearest multiple of 10 units.
Round6(c) == ((c + 5) \div 10) * 10

RECURSIVE position_to_max_idx_last(_, _, _, _, _)
\* The same loop without the activity comparison: the last source that
\* passes the threshold at a position replaces the earlier ones.
position_to_max_idx_last(todo, acc, pos_key, active_activity, show_arrow_mask) ==
    IF todo = <<>> THEN acc
    ELSE LET i == Head(todo)
             k == pos_key[i]
         IN  IF ~show_arrow_mask[i]
             THEN position_to_max_idx_last(
                      Tail(todo), acc, pos_key, active_activity, show_arrow_mask)
             ELSE position_to_max_idx_last(
                      Tail(todo), (k :> i) @@ acc, pos_key, active_activity,
                      show_arrow_mask)

RECURSIVE position_to_max_idx(_, _, _, _, _)
\* The loop over the rendered sources that keeps, per rounded 2D position,
\* the first source of largest activity among those passing the threshold.
position_to_max_idx(todo, acc, pos_key, active_activity, show_arrow_mask) ==
    IF todo = <<>> THEN acc
    ELSE LET i == Head(todo)
             k == pos_key[i]
         IN  IF ~show_arrow_mask[i]
             THEN position_to_max_idx(
                      Tail(todo), acc, pos_key, active_activity, show_arrow_mask)
             ELSE IF k \notin DOMAIN acc \/ active_activity[i] > active_activity[acc[k]]
             THEN position_to_max_idx(
                      Tail(todo), (k :> i) @@ acc, pos_key, active_activity,
                      show_arrow_mask)
             ELSE position_to_max_idx(
                      Tail(todo), acc, pos_key, active_activity, show_arrow_mask)

\* A figure that carries only an annotation (placeholder).
AnnotationFigure(text) ==
    [kind |-> "annotation", text |-> text, sources |-> {},
     x_centers |-> <<>>, y_centers |-> <<>>, z |-> <<>>,
     zmin |-> 0, zmax |-> 0, showscale |-> FALSE,
     arrows |-> {}, marker |-> <<>>, selected_arrow |-> <<>>,
     x_range |-> <<>>, y_range |-> <<>>]

\* _create_plotly_brain_projection: heatmap, arrows and selection marker of
\* one view. activity is 1-based over all sources.
create_plotly_brain_projection(viz, view_name, coords, activity, time_value, selected_source, show_colorbar, zmin, zmax) ==
    LET time_idx == ArgMinAbs(viz.time_values, time_value)
        active_indices == ActiveIndices(view_name, coords)
        order == SortedSeq(active_indices)
        active_vectors ==
            [i \in active_indices |->
                [c \in DOMAIN viz.glass_brain_data[i + 1] |->
                    viz.glass_brain_data[i + 1][c][time_idx + 1]]]
        has_vector_data == Len(viz.glass_brain_data[1]) = 3
        active_activity == [i \in active_indices |-> activity[i + 1]]
        x_coords == [i \in active_indices |-> ProjX(view_name, coords[i + 1])]
        y_coords == [i \in active_indices |-> ProjY(view_name, coords[i + 1])]
        unique_x == SortedSeq(Range(x_coords))
        unique_y == SortedSeq(Range(y_coords))
        x_edges == GridEdges(unique_x)
        y_edges == GridEdges(unique_y)
        x_bin == [i \in active_indices |-> BinOf(x_coords[i], x_edges)]
        y_bin == [i \in active_indices |-> BinOf(y_coords[i], y_edges)]
        H_max == [bx \in 1..(Len(x_edges) - 1) |->
                     [by \in 1..(Len(y_edges) - 1) |->
                         LET in_bin == SortedSeq({i \in active_indices :
                                                     x_bin[i] = bx /\ y_bin[i] = by})
                         IN  BinStatistic([k \in 1..Len(in_bin) |->
                                              active_activity[in_bin[k]]])]]
        x_centers == [b \in 1..(Len(x_edges) - 1) |->
                         (x_edges[b] + x_edges[b + 1]) \div 2]
        y_centers == [b \in 1..(Len(y_edges) - 1) |->
                         (y_edges[b] + y_edges[b + 1]) \div 2]
        arrow_magnitudes == [i \in active_indices |-> Norm(active_vectors[i])]
        show_arrow_mask == ShowArrowMask(viz.arrow_threshold, arrow_magnitudes)
        pos_key == [i \in active_indices |->
                       <<Round6(x_coords[i]), Round6(y_coords[i])>>]
        chosen == position_to_max_idx(order, <<>>, pos_key, active_activity,
                                      show_arrow_mask)
        Arrow(i) == [x |-> x_coords[i], y |-> y_coords[i],
                     u |-> ProjU(view_name, active_vectors[i]),
                     v |-> ProjV(view_name, active_vectors[i]),
                     src |-> i, activity |-> active_activity[i]]
        selected == selected_source /= None /\ selected_source \in active_indices
        show_selected_arrow ==
            \/ viz.arrow_threshold.kind = "none"
            \/ show_arrow_mask[selected_source]
    IN  [kind |-> "brain", text |-> <<>>, sources |-> active_indices,
         x_centers |-> x_centers, y_centers |-> y_centers,
         z |-> [by \in 1..(Len(y_edges) - 1) |->
                   [bx \in 1..(Len(x_edges) - 1) |-> H_max[bx][by]]],
         zmin |-> zmin, zmax |-> zmax, showscale |-> show_colorbar,
         arrows |-> IF has_vector_data
                    THEN {Arrow(chosen[k]) : k \in DOMAIN chosen}
                    ELSE {},
         marker |-> IF selected
                    THEN <<x_coords[selected_source], y_coords[selected_source]>>
                    ELSE <<>>,
         selected_arrow |-> IF selected /\ has_vector_data /\ show_selected_arrow
                            THEN <<Arrow(selected_source)>>
                            ELSE <<>>,
         x_range |-> IF view_name \in DOMAIN viz.view_ranges
                     THEN viz.view_ranges[view_name].x ELSE <<>>,
         y_range |-> IF view_name \in DOMAIN viz.view_ranges
                     THEN viz.view_ranges[view_name].y ELSE <<>>]

\* activity_magnitude of the time slice: glass_brain_data always has three
\* dimensions (scalar input is stored as one component), so the norm over
\* the component axis is taken for vector and scalar data alike.
ActivityMagnitude(viz, time_idx) ==
    LET k == PyIndex(Len(viz.glass_brain_data[1][1]), time_idx) + 1
    IN  [s \in DOMAIN viz.glass_brain_data |->
            Norm([c \in DOMAIN viz.glass_brain_data[s] |->
                     viz.glass_brain_data[s][c][k]])]

\* The time index after "if time_idx >= len(time_values): time_idx = 0".
ClampTimeIdx(viz, time_idx) ==
    IF time_idx >= Len(viz.time_values) THEN 0 ELSE time_idx

\* time_values[time_idx] and glass_brain_data[:, :, time_idx] both exist;
\* otherwise the IndexError ends the request in the outer except clause.
SliceExists(viz, t) ==
    /\ PyIndexOk(Len(viz.time_values), t)
    /\ PyIndexOk(Len(viz.glass_brain_data[1][1]), t)

\* The renderer of a view raises on arrays that do not fit: the fancy index
\* glass_brain_data[arange(len(coords)), :, time_idx], the boolean hemisphere
\* mask on the activity and binned_statistic_2d all need as many coordinates
\* as activity rows, and the time index found on the axis must exist in the
\* activity array.
ShapeRaises(viz, t) ==
    \/ Len(viz.source_coords) /= Len(viz.glass_brain_data)
    \/ ArgMinAbs(viz.time_values, viz.time_values[PyIndex(Len(viz.time_values), t) + 1])
           >= Len(viz.glass_brain_data[1][1])

\* The dictionary returned by the outer except clause.
OuterPlaceholder ==
    [view_name \in {"axial", "sagittal", "coronal"} |->
        AnnotationFigure(<<"No brain data">>)]

\* The loop over the views without its inner try/except: the first view that
\* raises ends the whole request in the outer except clause.
create_2d_brain_projections_plotly_unguarded(viz, time_idx, source_idx, failing) ==
    LET t == ClampTimeIdx(viz, time_idx)
        views == viz.brain_views
    IN  IF ~SliceExists(viz, t) \/ failing \cap Range(views) /= {} \/ ShapeRaises(viz, t)
        THEN OuterPlaceholder
        ELSE [view_name \in Range(views) |->
                 create_plotly_brain_projection(
                     viz, view_name, viz.source_coords,
                     ActivityMagnitude(viz, t),
                     viz.time_values[PyIndex(Len(viz.time_values), t) + 1],
                     source_idx,
                     /\ viz.layout_mode /= "horizontal"
                     /\ views[Len(views)] = view_name,
                     viz.global_vmin, viz.global_vmax)]

\* The view loop with the colour range taken from the slice being drawn.
create_2d_brain_projections_plotly_slice_range(viz, time_idx, source_idx, failing) ==
    LET t == ClampTimeIdx(viz, time_idx)
        views == viz.brain_views
    IN  IF ~SliceExists(viz, t)
        THEN OuterPlaceholder
        ELSE [view_name \in Range(views) |->
                 IF view_name \in failing \/ ShapeRaises(viz, t)
                 THEN AnnotationFigure(<<"Error", view_name>>)
                 ELSE create_plotly_brain_projection(
                          viz, view_name, viz.source_coords,
                          ActivityMagnitude(viz, t),
                          viz.time_values[PyIndex(Len(viz.time_values), t) + 1],
                          source_idx,
                          /\ viz.layout_mode /= "horizontal"
                          /\ views[Len(views)] = view_name,
                          0, SetMax(Range(ActivityMagnitude(viz, t))))]

\* _create_2d_brain_projections_plotly. failing is the set of views whose
\* rendering raises an exception in this request.
create_2d_brain_projections_plotly(viz, time_idx, source_idx, failing) ==
    LET t == ClampTimeIdx(viz, time_idx)
        views == viz.brain_views
    IN  IF ~SliceExists(viz, t)
        THEN OuterPlaceholder
        ELSE [view_name \in Range(views) |->
                 IF view_name \in failing \/ ShapeRaises(viz, t)
                 THEN AnnotationFigure(<<"Error", view_name>>)
                 ELSE create_plotly_brain_projection(
                          viz, view_name, viz.source_coords,
                          ActivityMagnitude(viz, t),
                          viz.time_values[PyIndex(Len(viz.time_values), t) + 1],
                          source_idx,
                          /\ viz.layout_mode /= "horizontal"
                          /\ views[Len(views)] = view_name,
                          viz.global_vmin, viz.global_vmax)]

\* update_brain_projections callback: one figure per view, or the same empty
\* figure for every view when the request raised (for instance a KeyError).
update_brain_projections(viz, time_idx, source_idx, failing) ==
    LET brain_plots == create_2d_brain_projections_plotly(
                           viz, time_idx, source_idx, failing)
        views == viz.brain_views
    IN  IF Range(views) \subseteq DOMAIN brain_plots
        THEN [i \in DOMAIN views |-> brain_plots[views[i]]]
        ELSE [i \in DOMAIN views |-> AnnotationFigure(<<"Error loading brain data">>)]

\* _create_horizontal_colorbar: the marker of the invisible trace that
\* carries the colour scale.
create_horizontal_colorbar(viz) ==
    [kind |-> "colorbar", showscale |-> TRUE,
     cmin |-> viz.global_vmin, cmax |-> viz.global_vmax]

(***************************************************************************)
(* Butterfly plot                                                          *)
(***************************************************************************)

\* Exponent of scale_factor: 1e12 below 1e-10, 1e9 below 1e-6, 1e6 below
\* 1e-3, else 1. Activity is a whole number of 1e-4, so only 0 is below 1e-10
\* and nothing else is below 1e-6.
ScaleExponent(butterfly_data) ==
    LET max_abs_val == SetMax({Abs(butterfly_data[s][k]) :
                                  s \in DOMAIN butterfly_data,
                                  k \in DOMAIN butterfly_data[1]})
    IN  IF max_abs_val = 0 THEN 12
        ELSE IF max_abs_val < 10 THEN 6
        ELSE 0

\* value * scale_factor (a zero stays zero under every factor).
Scaled(value, exponent) ==
    IF value = 0 THEN 0
    ELSE IF exponent = 6 THEN value * 1000000
    ELSE value

\* data_to_plot = butterfly_data.copy() * scale_factor
DataToPlot(butterfly_data) ==
    LET exponent == ScaleExponent(butterfly_data)
    IN  [s \in DOMAIN butterfly_data |->
            [k \in DOMAIN butterfly_data[s] |->
                Scaled(butterfly_data[s][k], exponent)]]

\* The stored array if the scaling were done in place on it.
ButterflyDataScaledInPlace(butterfly_data) == DataToPlot(butterfly_data)

\* The stored butterfly_data after _create_butterfly_plot: the plot works
\* on a copy, the stored array keeps its values.
ButterflyDataAfterPlot(butterfly_data) == butterfly_data

\* indices_to_plot[:10] with step = max(1, n_sources // 20).
IndicesToPlot(n_sources) ==
    LET step == IF n_sources \div 20 > 1 THEN n_sources \div 20 ELSE 1
        all == {i \in 0..(n_sources - 1) : i % step = 0}
    IN  {i \in all : Cardinality({j \in all : j < i}) < 10}

\* The butterfly plot if show_max_only dropped the mean trace as well.
create_butterfly_plot_only_max(viz, selected_time_idx) ==
    LET n_sources == Len(viz.butterfly_data)
        n_times == Len(viz.butterfly_data[1])
        data_to_plot == DataToPlot(viz.butterfly_data)
        ColumnSum[k \in 1..n_times, s \in 0..n_sources] ==
            IF s = 0 THEN 0 ELSE ColumnSum[k, s - 1] + data_to_plot[s][k]
    IN  [traces |-> IF viz.show_max_only THEN <<>>
                    ELSE [i \in IndicesToPlot(n_sources) |->
                             [y |-> data_to_plot[i + 1], customdata |-> i]],
         mean_activity |-> IF viz.show_max_only THEN <<>>
                           ELSE [k \in 1..n_times |-> <<ColumnSum[k, n_sources], n_sources>>],
         max_activity |-> [k \in 1..n_times |->
                              SetMax({data_to_plot[s][k] : s \in 1..n_sources})],
         scale_exponent |-> ScaleExponent(viz.butterfly_data),
         vline |-> IF 0 <= selected_time_idx /\ selected_time_idx < Len(viz.time_values)
                   THEN <<viz.time_values[selected_time_idx + 1]>>
                   ELSE <<>>]

\* _create_butterfly_plot: individual traces (unless show_max_only), mean and
\* max traces, and the vertical line of the selected time.
create_butterfly_plot(viz, selected_time_idx) ==
    LET n_sources == Len(viz.butterfly_data)
        n_times == Len(viz.butterfly_data[1])
        data_to_plot == DataToPlot(viz.butterfly_data)
        ColumnSum[k \in 1..n_times, s \in 0..n_sources] ==
            IF s = 0 THEN 0 ELSE ColumnSum[k, s - 1] + data_to_plot[s][k]
    IN  [traces |-> IF viz.show_max_only THEN <<>>
                    ELSE [i \in IndicesToPlot(n_sources) |->
                             [y |-> data_to_plot[i + 1], customdata |-> i]],
         mean_activity |-> [k \in 1..n_times |-> <<ColumnSum[k, n_sources], n_sources>>],
         max_activity |-> [k \in 1..n_times |->
                              SetMax({data_to_plot[s][k] : s \in 1..n_sources})],
         scale_exponent |-> ScaleExponent(viz.butterfly_data),
         vline |-> IF 0 <= selected_time_idx /\ selected_time_idx < Len(viz.time_values)
                   THEN <<viz.time_values[selected_time_idx + 1]>>
                   ELSE <<>>]

(***************************************************************************)
(* Interaction                                                             *)
(* An event payload (clickData / hoverData) is [kind, x, customdata]:      *)
(* kind "none" is None or an empty dict, "malformed" a payload whose       *)
(* points[0]["x"] lookup or arithmetic raises, "point" a usable point.     *)
(* The result names the three outputs; no_update keeps the current value.  *)
(***************************************************************************)

\* A handler that treats a hover like a click, whatever the switch says.
handle_butterfly_interaction_hover_as_click(triggered_id, payload, realtime_value, time_values, cur) ==
    LET is_realtime == "realtime" \in realtime_value
        no_update == [time |-> cur.time, source |-> cur.source,
                      realtime |-> realtime_value,
                      time_set |-> FALSE, source_set |-> FALSE]
    IN  IF triggered_id = "none" \/ payload.kind /= "point" THEN no_update
        ELSE [time |-> ArgMinAbs(time_values, payload.x),
              source |-> payload.customdata,
              realtime |-> IF is_realtime THEN {} ELSE realtime_value,
              time_set |-> TRUE, source_set |-> TRUE]

\* A handler whose click leaves the real-time switch as it is.
handle_butterfly_interaction_click_keeps_switch(triggered_id, payload, realtime_value, time_values, cur) ==
    LET is_realtime == "realtime" \in realtime_value
        no_update == [time |-> cur.time, source |-> cur.source,
                      realtime |-> realtime_value,
                      time_set |-> FALSE, source_set |-> FALSE]
    IN  IF triggered_id = "none" THEN no_update
        ELSE IF triggered_id = "hoverData" /\ is_realtime
        THEN IF payload.kind /= "point" THEN no_update
             ELSE [no_update EXCEPT !.time = ArgMinAbs(time_values, payload.x),
                                    !.time_set = TRUE]
        ELSE IF triggered_id = "clickData"
        THEN IF payload.kind /= "point" THEN no_update
             ELSE [time |-> ArgMinAbs(time_values, payload.x),
                   source |-> payload.customdata,
                   realtime |-> realtime_value,
                   time_set |-> TRUE, source_set |-> TRUE]
        ELSE no_update

\* A handler that numbers the clicked source from one.
handle_butterfly_interaction_source_from_one(triggered_id, payload, realtime_value, time_values, cur) ==
    LET is_realtime == "realtime" \in realtime_value
        no_update == [time |-> cur.time, source |-> cur.source,
                      realtime |-> realtime_value,
                      time_set |-> FALSE, source_set |-> FALSE]
    IN  IF triggered_id = "none" THEN no_update
        ELSE IF triggered_id = "hoverData" /\ is_realtime
        THEN IF payload.kind /= "point" THEN no_update
             ELSE [no_update EXCEPT !.time = ArgMinAbs(time_values, payload.x),
                                    !.time_set = TRUE]
        ELSE IF triggered_id = "clickData"
        THEN IF payload.kind /= "point" THEN no_update
             ELSE [time |-> ArgMinAbs(time_values, payload.x),
                   source |-> IF payload.customdata = None THEN None
                              ELSE payload.customdata + 1,
                   realtime |-> IF is_realtime THEN {} ELSE realtime_value,
                   time_set |-> TRUE, source_set |-> TRUE]
        ELSE no_update

\* handle_butterfly_interaction
handle_butterfly_interaction(triggered_id, payload, realtime_value, time_values, cur) ==
    LET is_realtime == "realtime" \in realtime_value
        no_update == [time |-> cur.time, source |-> cur.source,
                      realtime |-> realtime_value,
                      time_set |-> FALSE, source_set |-> FALSE]
    IN  IF triggered_id = "none" THEN no_update
        ELSE IF triggered_id = "hoverData" /\ is_realtime
        THEN IF payload.kind /= "point" THEN no_update
             ELSE [no_update EXCEPT !.time = ArgMinAbs(time_values, payload.x),
                                    !.time_set = TRUE]
        ELSE IF triggered_id = "clickData"
        THEN IF payload.kind /= "point" THEN no_update
             ELSE [time |-> ArgMinAbs(time_values, payload.x),
                   source |-> payload.customdata,
                   realtime |-> IF is_realtime THEN {} ELSE realtime_value,
                   time_set |-> TRUE, source_set |-> TRUE]
        ELSE no_update

(***************************************************************************)
(* Layout configuration (widths in 1/100 percent, lengths in pixels)       *)
(***************************************************************************)

\* "%.2f" of num / den, in 1/100: the nearest hundredth.
Format2f(num, den) == (200 * num + den) \div (2 * den)

\* The vertical widths with the notebook width of two views narrowed.
vertical_brain_width_for_views_narrow_two(num_views) ==
    IF num_views = 1 THEN [jupyter |-> 9800, browser |-> 9800]
    ELSE IF num_views = 2 THEN [jupyter |-> 4600, browser |-> 4800]
    ELSE IF num_views = 3 THEN [jupyter |-> 3000, browser |-> 3200]
    ELSE [jupyter |-> 2400, browser |-> 2400]

\* VerticalLayout._get_brain_width_for_views.
vertical_brain_width_for_views(num_views) ==
    IF num_views = 1 THEN [jupyter |-> 9800, browser |-> 9800]
    ELSE IF num_views = 2 THEN [jupyter |-> 4800, browser |-> 4800]
    ELSE IF num_views = 3 THEN [jupyter |-> 3000, browser |-> 3200]
    ELSE [jupyter |-> 2400, browser |-> 2400]

\* HorizontalLayout._get_brain_width_for_views: what the butterfly plot's
\* 30% leaves, shared equally.
horizontal_brain_width_for_views(num_views) ==
    LET butterfly_width == 30
        available_for_brains == 100 - butterfly_width
        brain_width_str == Format2f(available_for_brains, num_views)
    IN  [jupyter |-> brain_width_str, browser |-> brain_width_str]

\* VerticalLayout._get_vertical_config.
get_vertical_config(display_mode, brain_views, is_jupyter_mode) ==
    LET num_views == Len(brain_views)
        env == IF is_jupyter_mode THEN "jupyter" ELSE "browser"
        brain_width == vertical_brain_width_for_views(num_views)
    IN  [butterfly_width |-> 10000,
         brain_width |-> brain_width[env],
         brain_margin |->
             IF display_mode \in {"lzry", "lyrz"} /\ num_views = 4 THEN 50
             ELSE IF env = "jupyter" THEN 150 ELSE 50,
         plot_height |-> IF env = "jupyter" THEN 250 ELSE 450,
         butterfly_height |-> IF env = "jupyter" THEN 300 ELSE 400,
         container_padding |-> IF env = "jupyter" THEN 2 ELSE 5,
         arrangement |-> "vertical",
         num_views |-> num_views,
         brain_views |-> brain_views]

\* HorizontalLayout._get_horizontal_config.
get_horizontal_config(display_mode, brain_views, is_jupyter_mode) ==
    LET num_views == Len(brain_views)
        env == IF is_jupyter_mode THEN "jupyter" ELSE "browser"
        brain_width == horizontal_brain_width_for_views(num_views)
    IN  [butterfly_width |->
             IF display_mode \in {"lzry", "lyrz"} /\ num_views = 4 THEN 2500
             ELSE 3000,
         brain_width |-> brain_width[env],
         brain_margin |-> 0,
         plot_height |-> IF env = "jupyter" THEN 200 ELSE 350,
         butterfly_height |-> IF env = "jupyter" THEN 200 ELSE 350,
         container_padding |-> IF env = "jupyter" THEN 5 ELSE 10,
         arrangement |-> "horizontal",
         num_views |-> num_views,
         brain_views |-> brain_views]

\* The configuration the builder registered for layout_mode produces.
setup_layout(layout_mode, display_mode, brain_views, is_jupyter_mode) ==
    IF layout_mode = "vertical"
    THEN get_vertical_config(display_mode, brain_views, is_jupyter_mode)
    ELSE get_horizontal_config(display_mode, brain_views, is_jupyter_mode)

(***************************************************************************)
(* Image export. The clock counts half seconds; an asset key such as       *)
(* "axial_view" and a file name are the tuples of the parts joined.        *)
(***************************************************************************)

\* The last tick of the clock.
MaxClock == 3

TicksPerSecond == 2

\* A time stamp that keeps the fraction of the second.
strftime_with_fraction(now) == now

\* datetime.now().strftime("%Y%m%d_%H%M%S"): the time to the whole second.
strftime(now) == now \div TicksPerSecond

\* os.path.join(output_dir, f"{name}_{timestamp}.{format}")
image_path(output_dir, name, timestamp, format) ==
    [dir |-> output_dir, file |-> <<name, timestamp, format>>]

\* export_images: the butterfly plot, then one image per item of the
\* dictionary of projections, inside a single try block; failing holds the
\* assets whose write_image raises. Returns the dictionary and the files
\* written.
export_images(viz, output_dir, time_idx, format, now, failing) ==
    LET t == IF time_idx = None THEN 0 ELSE time_idx
        timestamp == strftime(now)
        brain_plots == create_2d_brain_projections_plotly(viz, t, None, {})
        items == IF Range(viz.brain_views) = DOMAIN brain_plots
                 THEN viz.brain_views
                 ELSE <<"axial", "sagittal", "coronal">>
        assets == <<<<"butterfly", "plot">>>> \o [i \in DOMAIN items |-> <<items[i], "view">>]
        raised == {i \in DOMAIN assets : assets[i] \in failing}
        done == IF raised = {} THEN Len(assets) ELSE SetMin(raised) - 1
        exported_files ==
            [a \in {assets[i] : i \in 1..done} |->
                image_path(output_dir, a, timestamp, format)]
    IN  [result |-> IF raised = {}
                    THEN [status |-> "success", files |-> exported_files]
                    ELSE [status |-> "error", files |-> exported_files],
         written |-> {[now |-> now, asset |-> a, path |-> exported_files[a]] :
                         a \in DOMAIN exported_files}]

(***************************************************************************)
(* The viewer instance                                                     *)
(***************************************************************************)

VARIABLES
    status,              \* "ready", or "error" when the constructor raised
    display_mode, layout_mode, brain_views,
    glass_brain_data, butterfly_data, source_coords, time_values,
    arrow_threshold, show_max_only,
    view_ranges, global_vmin, global_vmax,
    selected_time_idx,   \* dcc.Store "selected-time-idx"
    selected_source_idx, \* dcc.Store "selected-source-idx"
    realtime_value,      \* value of "realtime-mode-switch"
    butterfly_fig,       \* figure shown in "butterfly-plot"
    brain_figs,          \* figures shown in the "brain-<view>-plot" graphs
    brain_plots,         \* dictionary returned by the request being served
    request,             \* the projection request being served, or Idle
    last_event,          \* the last interaction event and the state before it
    constructed,         \* the data model as it stood at the end of __init__
    user_vmax,           \* the vmax argument of the constructor ([given, value])
    user_vmin,           \* the vmin argument of the constructor ([given, value])
    has_space,           \* the input y had a space dimension (vector data)
    colorbar_fig,        \* the standalone colour bar of the horizontal layout
    is_jupyter_mode,     \* the instance has been prepared for a notebook
    current_layout_config, \* the configuration of the layout last built
    clock,               \* the wall clock, in whole seconds
    disk,                \* every image write that succeeded ([call, asset, path])
    export_args,         \* the arguments of the last export_images call
    export_result        \* the dictionary the last export_images call returned

vars ==
    <<status, display_mode, layout_mode, brain_views, glass_brain_data,
      butterfly_data, source_coords, time_values, arrow_threshold,
      show_max_only, view_ranges, global_vmin, global_vmax, selected_time_idx,
      selected_source_idx, realtime_value, butterfly_fig, brain_figs,
      brain_plots, request, last_event, constructed, user_vmax, user_vmin, has_space, colorbar_fig, is_jupyter_mode, current_layout_config, clock, disk, export_args, export_result>>

\* The attributes of the instance the helpers read.
Viz ==
    [glass_brain_data |-> glass_brain_data, butterfly_data |-> butterfly_data,
     source_coords |-> source_coords, time_values |-> time_values,
     brain_views |-> brain_views, layout_mode |-> layout_mode,
     arrow_threshold |-> arrow_threshold, show_max_only |-> show_max_only,
     view_ranges |-> view_ranges, global_vmin |-> global_vmin,
     global_vmax |-> global_vmax]

\* The data model: everything but the selection state.
DataModel ==
    [glass_brain_data |-> glass_brain_data, butterfly_data |-> butterfly_data,
     source_coords |-> source_coords, time_values |-> time_values,
     brain_views |-> brain_views, view_ranges |-> view_ranges,
     global_vmin |-> global_vmin, global_vmax |-> global_vmax]

\* The constructor if the tokens were validated after loading the data and
\* computing the ranges.
LiveNeuroInit_validate_late(y, mode, layout, threshold, max_only, vmax) ==
    LET views == parse_display_mode(mode).views
        brain_data == load_ndvar_data(y)
        colour == calculate_global_colormap_range(
                      brain_data.glass_brain_data, vmax)
    IN  [status |-> IF layout \notin LAYOUTS \/ ~parse_display_mode(mode).ok
                    THEN "error" ELSE "ready",
         brain_views |-> views,
         glass_brain_data |-> brain_data.glass_brain_data,
         butterfly_data |-> brain_data.butterfly_data,
         source_coords |-> brain_data.source_coords,
         time_values |-> brain_data.time_values,
         view_ranges |-> unify_view_sizes_for_jupyter(
                             calculate_view_ranges(
                                 brain_data.source_coords, views)),
         global_vmin |-> colour[1], global_vmax |-> colour[2]]

\* LiveNeuro.__init__ up to the layout: validation, loading, ranges.
LiveNeuroInit(y, mode, layout, threshold, max_only, vmax) ==
    IF layout \notin LAYOUTS \/ ~parse_display_mode(mode).ok
    THEN [status |-> "error", brain_views |-> <<>>, glass_brain_data |-> <<>>,
          butterfly_data |-> <<>>, source_coords |-> <<>>, time_values |-> <<>>,
          view_ranges |-> <<>>, global_vmin |-> 0, global_vmax |-> 10000]
    ELSE LET views == parse_display_mode(mode).views
             brain_data == load_ndvar_data(y)
             colour == calculate_global_colormap_range(
                           brain_data.glass_brain_data, vmax)
         IN  [status |-> "ready", brain_views |-> views,
              glass_brain_data |-> brain_data.glass_brain_data,
              butterfly_data |-> brain_data.butterfly_data,
              source_coords |-> brain_data.source_coords,
              time_values |-> brain_data.time_values,
              view_ranges |-> unify_view_sizes_for_jupyter(
                                  calculate_view_ranges(
                                      brain_data.source_coords, views)),
              global_vmin |-> colour[1], global_vmax |-> colour[2]]

(***************************************************************************)
(* Inputs                                                                  *)
(***************************************************************************)

ModeTokens == SupportedModes \cup {"zx", "xyz", "lrz", "Ortho", ""}

LayoutTokens == LAYOUTS \cup {"grid"}

\* Source positions: a left, a right and a midline source that share their
\* sagittal position, and a right source 0.3 micrometre in front of it and 1 cm above.
CoordList ==
    << <<-100000, 0, 0>>, <<100000, 0, 0>>, <<0, 0, 0>>, <<100000, 3, 100000>> >>

CoordSet == Range(CoordList)

\* Dipole vectors with whole-number norms 4, 5 and 0.
VecList == << <<4, 0, 0>>, <<0, -4, 3>>, <<0, 0, 0>> >>

VecSet == Range(VecList)

ScalarList == <<3, -2, 0>>

ScalarSet == Range(ScalarList)

\* Strictly increasing time axes (ms), uniform and not.
TimeAxes == {<<0>>, <<-100, 0, 300>>, <<0, 50, 100, 150, 200>>}

\* x of a click or hover (ms): before the axis, on a sample, midway between
\* two samples, between samples, and after the axis.
EventTimes == {-130, 0, 25, 137, 1000}

Thresholds ==
    {[kind |-> "none", value |-> 0], [kind |-> "auto", value |-> 0],
     [kind |-> "value", value |-> 4]}

\* Every arrow-threshold policy, the numeric threshold 0.0 included.
ArrowPolicies == Thresholds \cup {[kind |-> "value", value |-> 0]}

NoVmax == [given |-> FALSE, value |-> 0]

NoVmin == [given |-> FALSE, value |-> 0]

\* The vmin argument: absent, or a positive lower bound.
UserVmins == {NoVmin, [given |-> TRUE, value |-> 2]}

\* The vmax argument: absent, negative, zero, below and above the data maximum.
UserVmaxes ==
    {NoVmax} \cup {[given |-> TRUE, value |-> v] : v \in {-3, 0, 4, 20000}}

\* Slice k of the input is the base slice rotated by k - 1 sources.
Rot(s, k, n) == ((s - 1 + k - 1) % n) + 1

VectorInput(coords, times, base) ==
    [coords |-> coords, times |-> times, has_space |-> TRUE,
     data |-> [s \in DOMAIN coords |-> [c \in 1..3 |-> [k \in DOMAIN times |->
                  base[Rot(s, k, Len(coords))][c]]]]]

ScalarInput(coords, times, base) ==
    [coords |-> coords, times |-> times, has_space |-> FALSE,
     data |-> [s \in DOMAIN coords |-> [k \in DOMAIN times |->
                  base[Rot(s, k, Len(coords))]]]]

FixedCoords == [s \in 1..NumSources |-> CoordList[((s - 1) % Len(CoordList)) + 1]]

FixedVectors == [s \in 1..NumSources |-> VecList[((s - 1) % Len(VecList)) + 1]]

FixedScalars == [s \in 1..NumSources |-> ScalarList[((s - 1) % Len(ScalarList)) + 1]]

\* export_images has not been called.
NoExport ==
    [called |-> FALSE, output_dir |-> "", time_idx |-> None, format |-> "",
     now |-> 0, failing |-> {}]

\* The assets an export writes: the butterfly plot and one image per view.
ExportAssets(views) == {<<"butterfly", "plot">>} \cup {<<views[i], "view">> : i \in DOMAIN views}

\* No projection request is being served.
Idle == [via |-> "idle", time_idx |-> 0, source_idx |-> None, failing |-> {}]

\* The attributes of a freshly constructed instance.
StartViz(new, layout, threshold, max_only) ==
    [glass_brain_data |-> new.glass_brain_data,
     butterfly_data |-> new.butterfly_data,
     source_coords |-> new.source_coords,
     time_values |-> new.time_values,
     brain_views |-> new.brain_views, layout_mode |-> layout,
     arrow_threshold |-> threshold, show_max_only |-> max_only,
     view_ranges |-> new.view_ranges,
     global_vmin |-> new.global_vmin,
     global_vmax |-> new.global_vmax]

\* The state at the end of __init__ for one choice of constructor arguments;
\* the layout shows the figures of time index 0 with nothing selected.
InitWithRange(y, mode, layout, threshold, max_only, realtime, vmin, vmax) ==
    \E new \in {LiveNeuroInit(y, mode, layout, threshold, max_only, vmax)} :
    \E viz \in {StartViz(new, layout, threshold, max_only)} :
    \E ready \in {new.status = "ready"} :
        /\ status = new.status
        /\ display_mode = mode
        /\ layout_mode = layout
        /\ brain_views = new.brain_views
        /\ glass_brain_data = new.glass_brain_data
        /\ butterfly_data = new.butterfly_data
        /\ source_coords = new.source_coords
        /\ time_values = new.time_values
        /\ arrow_threshold = threshold
        /\ show_max_only = max_only
        /\ view_ranges = new.view_ranges
        /\ global_vmin = new.global_vmin
        /\ global_vmax = new.global_vmax
        /\ selected_time_idx = 0
        /\ selected_source_idx = None
        /\ realtime_value = IF realtime THEN {"realtime"} ELSE {}
        /\ butterfly_fig = IF ready THEN create_butterfly_plot(viz, 0) ELSE <<>>
        /\ brain_plots = <<>>
        /\ brain_figs = IF ready
                        THEN update_brain_projections(viz, 0, None, {})
                        ELSE <<>>
        /\ request = Idle
        /\ last_event = [type |-> "init",
                         payload |-> [kind |-> "none", x |-> 0, customdata |-> None],
                         time |-> 0, source |-> None,
                         realtime |-> IF realtime THEN {"realtime"} ELSE {}]
        /\ constructed =
               [glass_brain_data |-> new.glass_brain_data,
                butterfly_data |-> new.butterfly_data,
                source_coords |-> new.source_coords,
                time_values |-> new.time_values,
                brain_views |-> new.brain_views,
                view_ranges |-> new.view_ranges,
                global_vmin |-> new.global_vmin,
                global_vmax |-> new.global_vmax]
        /\ user_vmax = vmax
        /\ user_vmin = vmin
        /\ has_space = y.has_space
        /\ colorbar_fig = IF ready /\ layout = "horizontal"
                          THEN create_horizontal_colorbar(viz)
                          ELSE <<>>
        /\ is_jupyter_mode = FALSE
        /\ current_layout_config =
               IF ready
               THEN setup_layout(layout, mode, new.brain_views, FALSE)
               ELSE <<>>
        /\ clock = 0
        /\ disk = {}
        /\ export_args = NoExport
        /\ export_result = [status |-> "none", files |-> <<>>]

\* The constructor called without a vmin argument.
InitWithVmax(y, mode, layout, threshold, max_only, realtime, vmax) ==
    InitWithRange(y, mode, layout, threshold, max_only, realtime, NoVmin, vmax)

\* The constructor called without a vmax argument.
InitWith(y, mode, layout, threshold, max_only, realtime) ==
    InitWithVmax(y, mode, layout, threshold, max_only, realtime, NoVmax)

(***************************************************************************)
(* Operations                                                              *)
(***************************************************************************)

NoPayload == [kind |-> "none", x |-> 0, customdata |-> None]

MalformedPayload == [kind |-> "malformed", x |-> 0, customdata |-> None]

\* clickData: x of the clicked point, customdata of the clicked trace (the
\* mean and max traces carry none).
ClickPayloads ==
    {NoPayload, MalformedPayload} \cup
    {[kind |-> "point", x |-> x, customdata |-> c] :
        x \in EventTimes,
        c \in {None} \cup (IF show_max_only THEN {}
                           ELSE IndicesToPlot(Len(butterfly_data)))}

\* hoverData: x of the cursor.
HoverPayloads ==
    {NoPayload, MalformedPayload} \cup
    {[kind |-> "point", x |-> x, customdata |-> None] : x \in EventTimes}

\* One run of handle_butterfly_interaction and of the figure callbacks that
\* its outputs trigger (update_butterfly, update_brain_projections).
Interaction(type, triggered_id, payload) ==
    /\ status = "ready"
    /\ request = Idle
    /\ \E r \in {handle_butterfly_interaction(
                     triggered_id, payload, realtime_value, time_values,
                     [time |-> selected_time_idx, source |-> selected_source_idx])} :
           /\ selected_time_idx' = r.time
           /\ selected_source_idx' = r.source
           /\ realtime_value' = r.realtime
           /\ last_event' = [type |-> type, payload |-> payload,
                             time |-> selected_time_idx,
                             source |-> selected_source_idx,
                             realtime |-> realtime_value]
           /\ IF r.time_set
              THEN /\ butterfly_fig' = create_butterfly_plot(Viz, r.time)
                   /\ butterfly_data' = ButterflyDataAfterPlot(butterfly_data)
              ELSE UNCHANGED <<butterfly_fig, butterfly_data>>
           /\ IF r.time_set \/ r.source_set
              THEN brain_figs' = update_brain_projections(Viz, r.time, r.source, {})
              ELSE UNCHANGED brain_figs
           /\ UNCHANGED <<brain_plots, request, status, display_mode, layout_mode, brain_views,
                          glass_brain_data, source_coords, time_values,
                          arrow_threshold, show_max_only, view_ranges,
                          global_vmin, global_vmax, constructed, user_vmax, user_vmin, has_space, colorbar_fig, is_jupyter_mode, current_layout_config, clock, disk, export_args, export_result>>

\* A click on the butterfly plot.
Click == \E payload \in ClickPayloads : Interaction("click", "clickData", payload)

\* A hover over the butterfly plot.
Hover == \E payload \in HoverPayloads : Interaction("hover", "hoverData", payload)

\* The user flips the real-time switch.
ToggleRealtime ==
    /\ status = "ready"
    /\ request = Idle
    /\ realtime_value' = IF "realtime" \in realtime_value THEN {} ELSE {"realtime"}
    /\ last_event' = [type |-> "toggle", payload |-> NoPayload,
                      time |-> selected_time_idx, source |-> selected_source_idx,
                      realtime |-> realtime_value]
    /\ UNCHANGED <<status, display_mode, layout_mode, brain_views,
                   glass_brain_data, butterfly_data, source_coords, time_values,
                   arrow_threshold, show_max_only, view_ranges, global_vmin,
                   global_vmax, selected_time_idx, selected_source_idx,
                   butterfly_fig, brain_figs, brain_plots, request, constructed, user_vmax, user_vmin, has_space, colorbar_fig, is_jupyter_mode, current_layout_config, clock, disk, export_args, export_result>>

\* A call of _create_2d_brain_projections_plotly(time_idx, source_idx).
CreateProjections(time_idx, source_idx, failing) ==
    /\ status = "ready"
    /\ request = Idle
    /\ brain_plots' = create_2d_brain_projections_plotly(
                          Viz, time_idx, source_idx, failing)
    /\ request' = [via |-> "direct", time_idx |-> time_idx,
                   source_idx |-> source_idx, failing |-> failing]
    /\ UNCHANGED <<status, display_mode, layout_mode, brain_views,
                   glass_brain_data, butterfly_data, source_coords, time_values,
                   arrow_threshold, show_max_only, view_ranges, global_vmin,
                   global_vmax, selected_time_idx, selected_source_idx,
                   realtime_value, butterfly_fig, brain_figs, last_event,
                   constructed, user_vmax, user_vmin, has_space, colorbar_fig, is_jupyter_mode, current_layout_config, clock, disk, export_args, export_result>>

\* Any time index, any selected source, any set of views that raise.
DirectCall ==
    \E time_idx \in (0 - Len(time_values) - 1)..(Len(time_values) + 1),
       source_idx \in {None, 0},
       failing \in SUBSET Range(brain_views) :
        CreateProjections(time_idx, source_idx, failing)

\* The page loads: the figure callbacks run on the initial store values.
PageLoad ==
    \E failing \in SUBSET Range(brain_views) :
        /\ status = "ready"
        /\ request = Idle
        /\ butterfly_fig' = create_butterfly_plot(Viz, selected_time_idx)
        /\ butterfly_data' = ButterflyDataAfterPlot(butterfly_data)
        /\ brain_figs' = update_brain_projections(
                             Viz, selected_time_idx, selected_source_idx, failing)
        /\ brain_plots' = create_2d_brain_projections_plotly(
                              Viz, selected_time_idx, selected_source_idx, failing)
        /\ request' = [via |-> "callback", time_idx |-> selected_time_idx,
                       source_idx |-> selected_source_idx, failing |-> failing]
        /\ UNCHANGED <<status, display_mode, layout_mode, brain_views,
                       glass_brain_data, source_coords, time_values,
                       arrow_threshold, show_max_only, view_ranges, global_vmin,
                       global_vmax, selected_time_idx, selected_source_idx,
                       realtime_value, last_event, constructed, user_vmax, user_vmin, has_space, colorbar_fig, is_jupyter_mode, current_layout_config, clock, disk, export_args, export_result>>

\* The request has been answered: its return value is handed to the caller.
Return ==
    /\ request /= Idle
    /\ request' = Idle
    /\ brain_plots' = <<>>
    /\ UNCHANGED <<status, display_mode, layout_mode, brain_views,
                   glass_brain_data, butterfly_data, source_coords, time_values,
                   arrow_threshold, show_max_only, view_ranges, global_vmin,
                   global_vmax, selected_time_idx, selected_source_idx,
                   realtime_value, butterfly_fig, brain_figs, last_event,
                   constructed, user_vmax, user_vmin, has_space, colorbar_fig, is_jupyter_mode, current_layout_config, clock, disk, export_args, export_result>>

\* Every view of the instance rendered for one time index of the axis.
RenderSlice ==
    \E time_idx \in 0..(Len(time_values) - 1) :
        CreateProjections(time_idx, None, {})

\* A request for one time index of the axis with nothing, the first or the
\* last source selected.
RenderSelected ==
    \E time_idx \in 0..(Len(time_values) - 1),
       source_idx \in {None, 0, Len(source_coords) - 1} :
        CreateProjections(time_idx, source_idx, {})

\* _prepare_for_jupyter: the notebook flag is set, the view boxes are unified
\* and the layout is rebuilt with its initial figures.
PrepareForJupyter ==
    /\ status = "ready"
    /\ request = Idle
    /\ \E unified \in {unify_view_sizes_for_jupyter(view_ranges)} :
       \E viz \in {[Viz EXCEPT !.view_ranges = unified]} :
           /\ is_jupyter_mode' = TRUE
           /\ view_ranges' = unified
           /\ current_layout_config' =
                  setup_layout(layout_mode, display_mode, brain_views, TRUE)
           /\ butterfly_fig' = create_butterfly_plot(viz, 0)
           /\ butterfly_data' = ButterflyDataAfterPlot(butterfly_data)
           /\ brain_figs' = update_brain_projections(viz, 0, None, {})
    /\ UNCHANGED <<status, display_mode, layout_mode, brain_views,
                   glass_brain_data, source_coords, time_values,
                   arrow_threshold, show_max_only, global_vmin, global_vmax,
                   selected_time_idx, selected_source_idx, realtime_value,
                   brain_plots, request, last_event, constructed, user_vmax,
                   user_vmin, has_space, colorbar_fig, clock, disk, export_args,
                   export_result>>

\* Half a second passes.
Tick ==
    /\ clock < MaxClock
    /\ clock' = clock + 1
    /\ UNCHANGED <<status, display_mode, layout_mode, brain_views,
                   glass_brain_data, butterfly_data, source_coords, time_values,
                   arrow_threshold, show_max_only, view_ranges, global_vmin,
                   global_vmax, selected_time_idx, selected_source_idx,
                   realtime_value, butterfly_fig, brain_figs, brain_plots,
                   request, last_event, constructed, user_vmax, user_vmin,
                   has_space, colorbar_fig, is_jupyter_mode,
                   current_layout_config, disk, export_args, export_result>>

\* A call of export_images: into the directory "images", as png or svg, for
\* the default or the last time index, with no write or one write failing.
\* The call reads the clock once and returns within the half second.
ExportImages ==
    \E format \in {"png", "svg"}, time_idx \in {None, Len(time_values) - 1},
       failing \in {{}} \cup {{a} : a \in ExportAssets(brain_views)} :
        /\ status = "ready"
        /\ request = Idle
        /\ clock < MaxClock
        /\ \E e \in {export_images(Viz, "images", time_idx, format, clock, failing)} :
               /\ export_result' = e.result
               /\ disk' = disk \cup e.written
        /\ export_args' = [called |-> TRUE, output_dir |-> "images",
                           time_idx |-> time_idx, format |-> format,
                           now |-> clock, failing |-> failing]
        /\ butterfly_data' = ButterflyDataAfterPlot(butterfly_data)
        /\ clock' = clock + 1
        /\ UNCHANGED <<status, display_mode, layout_mode, brain_views,
                       glass_brain_data, source_coords, time_values,
                       arrow_threshold, show_max_only, view_ranges, global_vmin,
                       global_vmax, selected_time_idx, selected_source_idx,
                       realtime_value, butterfly_fig, brain_figs, brain_plots,
                       request, last_event, constructed, user_vmax, user_vmin,
                       has_space, colorbar_fig, is_jupyter_mode,
                       current_layout_config>>

(***************************************************************************)
(* Specifications                                                          *)
(***************************************************************************)

\* Interaction: a viewer on fixed data, driven by clicks, hovers and the
\* real-time switch.
Init ==
    \E times \in TimeAxes, mode \in {"lr"}, vector \in BOOLEAN,
       max_only \in BOOLEAN, realtime \in {FALSE} :
        InitWith(IF vector THEN VectorInput(FixedCoords, times, FixedVectors)
                 ELSE ScalarInput(FixedCoords, times, FixedScalars),
                 mode, "vertical", [kind |-> "none", value |-> 0],
                 max_only, realtime)

Next == Click \/ Hover \/ ToggleRealtime

Spec == Init /\ [][Next]_vars

\* Projection requests: every mode and layout token, fixed data, direct
\* calls with any time index and the callbacks of a page load.
InitProj ==
    \E times \in {<<0>>, <<0, 50>>}, mode \in ModeTokens,
       layout \in LayoutTokens, vector \in BOOLEAN :
        InitWith(IF vector THEN VectorInput(FixedCoords, times, FixedVectors)
                 ELSE ScalarInput(FixedCoords, times, FixedScalars),
                 mode, layout, [kind |-> "none", value |-> 0], FALSE, FALSE)

NextProj == DirectCall \/ PageLoad \/ Return

SpecProj == InitProj /\ [][NextProj]_vars

\* The ways to place the sources on the positions of CoordList, the sources
\* listed in the order of the list. The vectors and scalars below vary over
\* every assignment, so every order of activity among sources that share a
\* position occurs.
Placements ==
    {[s \in 1..NumSources |-> CoordList[c[s]]] :
        c \in {d \in [1..NumSources -> DOMAIN CoordList] :
                  \A i \in 1..(NumSources - 1) : d[i] <= d[i + 1]}}

\* Rendering: every placement of the sources, every assignment of vectors or
\* scalars, every arrow-threshold policy.
InitRender ==
    \E coords \in Placements, mode \in {"lzry"} :
        \/ \E base \in [1..NumSources -> VecSet], threshold \in Thresholds :
               InitWith(VectorInput(coords, <<0, 50>>, base), mode, "vertical",
                        threshold, FALSE, FALSE)
        \/ \E base \in [1..NumSources -> ScalarSet] :
               InitWith(ScalarInput(coords, <<0, 50>>, base), mode, "vertical",
                        [kind |-> "none", value |-> 0], FALSE, FALSE)

NextRender == RenderSlice \/ Return

SpecRender == InitRender /\ [][NextRender]_vars

\* Colour scale: every assignment of vectors or scalars (constant tensors
\* among them), every vmax argument, both layouts, all five views.
InitColour ==
    \E mode \in {"ortho", "lr"}, layout \in LAYOUTS, vmin \in UserVmins,
       vmax \in UserVmaxes :
        \/ \E base \in [1..NumSources -> VecSet] :
               InitWithRange(VectorInput(FixedCoords, <<0, 50>>, base), mode,
                             layout, [kind |-> "none", value |-> 0], FALSE,
                             FALSE, vmin, vmax)
        \/ \E base \in [1..NumSources -> ScalarSet] :
               InitWithRange(ScalarInput(FixedCoords, <<0, 50>>, base), mode,
                             layout, [kind |-> "none", value |-> 0], FALSE,
                             FALSE, vmin, vmax)

NextColour == RenderSlice \/ Return

SpecColour == InitColour /\ [][NextColour]_vars

\* Axis ranges: every placement of the sources (a single position and
\* positions that agree on an axis among them), all five views.
InitRanges ==
    \E coords \in Placements, mode \in {"ortho", "lr", "lzry"}, vector \in BOOLEAN :
        InitWith(IF vector THEN VectorInput(coords, <<0, 50>>, FixedVectors)
                 ELSE ScalarInput(coords, <<0, 50>>, FixedScalars),
                 mode, "vertical", [kind |-> "none", value |-> 0], FALSE, FALSE)

NextRanges == RenderSlice \/ Return

SpecRanges == InitRanges /\ [][NextRanges]_vars

\* Arrows: vector data in mode lr under the threshold 0.0, for every
\* placement and every assignment of vectors; scalar data under every
\* threshold policy, in all five views.
InitArrows ==
    \E coords \in Placements :
        \/ \E base \in [1..NumSources -> VecSet] :
               InitWith(VectorInput(coords, <<0, 50>>, base), "lr", "vertical",
                        [kind |-> "value", value |-> 0], FALSE, FALSE)
        \/ \E mode \in {"ortho", "lr"}, threshold \in ArrowPolicies :
               InitWith(ScalarInput(coords, <<0, 50>>, FixedScalars), mode,
                        "vertical", threshold, FALSE, FALSE)

NextArrows == RenderSelected \/ Return

SpecArrows == InitArrows /\ [][NextArrows]_vars

\* The first m positions of the coordinate list, repeated as needed.
CoordsOfLength(m) == [s \in 1..m |-> CoordList[((s - 1) % Len(CoordList)) + 1]]

\* Loading: an activity array of NumSources sources and two time samples,
\* handed over with one coordinate less, as many or one more than it has
\* sources, and with a time axis of one, two or three samples.
InitLoad ==
    \E m \in (NumSources - 1)..(NumSources + 1),
       times \in {<<0>>, <<0, 50>>, <<0, 50, 100>>},
       mode \in {"x", "lr", "ortho"}, layout \in LAYOUTS, vector \in BOOLEAN :
        InitWith([coords |-> CoordsOfLength(m), times |-> times,
                  has_space |-> vector,
                  data |-> IF vector
                           THEN VectorInput(FixedCoords, <<0, 50>>, FixedVectors).data
                           ELSE ScalarInput(FixedCoords, <<0, 50>>, FixedScalars).data],
                 mode, layout, [kind |-> "none", value |-> 0], FALSE, FALSE)

NextLoad == RenderSlice \/ Return

SpecLoad == InitLoad /\ [][NextLoad]_vars

\* Notebook preparation: every placement of the sources, one display mode for
\* each number of views, both layouts; the instance is prepared for a
\* notebook any number of times and its views are rendered.
InitJupyter ==
    \E coords \in Placements, mode \in {"x", "lr", "ortho", "lzry"},
       layout \in LAYOUTS, vector \in BOOLEAN :
        InitWith(IF vector THEN VectorInput(coords, <<0, 50>>, FixedVectors)
                 ELSE ScalarInput(coords, <<0, 50>>, FixedScalars),
                 mode, layout, [kind |-> "none", value |-> 0], FALSE, FALSE)

NextJupyter == PrepareForJupyter \/ RenderSlice \/ Return

SpecJupyter == InitJupyter /\ [][NextJupyter]_vars

\* Source positions on a line with unequal gaps: 1 cm, 1 cm and 2 cm apart
\* on the x axis, the last one 1 cm above the others.
GridCoordList ==
    << <<-100000, 0, 0>>, <<0, 0, 0>>, <<100000, 0, 0>>, <<300000, 0, 100000>> >>

GridPlacements ==
    {[s \in 1..NumSources |-> GridCoordList[c[s]]] :
        c \in {d \in [1..NumSources -> DOMAIN GridCoordList] :
                  \A i \in 1..(NumSources - 1) : d[i] <= d[i + 1]}}

\* Binning grid: sources placed uniformly and not along an axis, rendered
\* with nothing, the first or the last source selected.
InitGrid ==
    \E coords \in GridPlacements, mode \in {"ortho", "lr"}, vector \in BOOLEAN :
        InitWith(IF vector THEN VectorInput(coords, <<0, 50>>, FixedVectors)
                 ELSE ScalarInput(coords, <<0, 50>>, FixedScalars),
                 mode, "vertical", [kind |-> "none", value |-> 0], FALSE, FALSE)

NextGrid == RenderSelected \/ Return

SpecGrid == InitGrid /\ [][NextGrid]_vars

\* Dipole vectors with norms 4 and 50: more than a factor of ten apart.
AutoVecList == << <<4, 0, 0>>, <<0, 0, 50>> >>

AutoVecSet == Range(AutoVecList)

\* Automatic arrow threshold: vector data under arrow_threshold='auto', for
\* every placement and every assignment of a weak or a strong dipole, in
\* the hemisphere views and in the orthogonal views.
InitAuto ==
    \E coords \in Placements, mode \in {"lr", "ortho"},
       base \in [1..NumSources -> AutoVecSet] :
        InitWith(VectorInput(coords, <<0, 50>>, base), mode, "vertical",
                 [kind |-> "auto", value |-> 0], FALSE, FALSE)

NextAuto == RenderSelected \/ Return

SpecAuto == InitAuto /\ [][NextAuto]_vars

\* Export: a viewer with one, two or three views whose images are exported
\* up to once every half second.
InitExport ==
    \E mode \in {"x", "lr", "ortho"} :
        InitWith(VectorInput(FixedCoords, <<0, 50>>, FixedVectors), mode,
                 "vertical", [kind |-> "none", value |-> 0], FALSE, FALSE)

NextExport == ExportImages \/ Tick

SpecExport == InitExport /\ [][NextExport]_vars

(***************************************************************************)
(* Properties                                                              *)
(***************************************************************************)

\* C1: the display-mode resolver maps each of the 14 supported tokens to its
\* fixed list of 1 to 4 view identifiers, in the order of the table, gives
\* the same list whenever it is asked again, and fails on every other token
\* (the constructor then raises and no viewer exists).
C1_DisplayModeTable ==
    LET table ==
            [x |-> <<"sagittal">>, y |-> <<"coronal">>, z |-> <<"axial">>,
             xz |-> <<"sagittal", "axial">>, yx |-> <<"coronal", "sagittal">>,
             yz |-> <<"coronal", "axial">>, l |-> <<"left_hemisphere">>,
             r |-> <<"right_hemisphere">>,
             lr |-> <<"left_hemisphere", "right_hemisphere">>,
             lzr |-> <<"left_hemisphere", "axial", "right_hemisphere">>,
             lyr |-> <<"left_hemisphere", "coronal", "right_hemisphere">>,
             ortho |-> <<"sagittal", "coronal", "axial">>,
             lzry |-> <<"left_hemisphere", "axial", "right_hemisphere", "coronal">>,
             lyrz |-> <<"left_hemisphere", "coronal", "right_hemisphere", "axial">>]
    IN  /\ Cardinality(DOMAIN table) = 14
        /\ display_mode \in DOMAIN table =>
               /\ parse_display_mode(display_mode) =
                      [ok |-> TRUE, views |-> table[display_mode]]
               /\ Len(table[display_mode]) \in 1..4
               /\ Range(table[display_mode]) \subseteq ViewIds
               /\ layout_mode \in LAYOUTS =>
                      status = "ready" /\ brain_views = table[display_mode]
        /\ display_mode \notin DOMAIN table =>
               /\ ~parse_display_mode(display_mode).ok
               /\ status = "error"
               /\ brain_views = <<>>

\* A viewer built with mode "yx" is serving a projection request.
C1_Witness ==
    /\ display_mode = "yx"
    /\ status = "ready"
    /\ brain_views = <<"coronal", "sagittal">>
    /\ request.via = "direct"

\* C2: whatever time index a projection request carries, the keys of the
\* mapping it returns are the resolved views of the instance.
C2_KeysAreResolvedViews ==
    request.via = "direct" => DOMAIN brain_plots = Range(brain_views)

\* C3: in a request that reaches the loop over the views, a view whose
\* rendering raises gets an error placeholder, and every other view gets the
\* figure that rendering it alone produces; the callback hands the same
\* figures to the graphs, in view order.
C3_ViewIsolation ==
    (/\ request /= Idle
     /\ PyIndexOk(Len(time_values), ClampTimeIdx(Viz, request.time_idx))) =>
        LET t == ClampTimeIdx(Viz, request.time_idx)
            Expected(view_name) ==
                IF view_name \in request.failing
                THEN AnnotationFigure(<<"Error", view_name>>)
                ELSE create_plotly_brain_projection(
                         Viz, view_name, source_coords, ActivityMagnitude(Viz, t),
                         time_values[PyIndex(Len(time_values), t) + 1],
                         request.source_idx,
                         /\ layout_mode /= "horizontal"
                         /\ brain_views[Len(brain_views)] = view_name,
                         global_vmin, global_vmax)
        IN  \A i \in DOMAIN brain_views :
                /\ brain_views[i] \in DOMAIN brain_plots
                /\ brain_plots[brain_views[i]] = Expected(brain_views[i])
                /\ brain_views[i] \notin request.failing =>
                       brain_plots[brain_views[i]].kind = "brain"
                /\ request.via = "callback" =>
                       brain_figs[i] = Expected(brain_views[i])

\* One view of four fails in a page-load request and the other three are
\* drawn.
C3_Witness ==
    /\ request.via = "callback"
    /\ display_mode = "lzry"
    /\ request.failing = {"axial"}
    /\ brain_figs[2].kind = "annotation"
    /\ \A i \in {1, 3, 4} : brain_figs[i].kind = "brain"

\* C4: after a click, or a hover in real-time mode, on time value x the
\* selected time index is in [0, T-1], no sample is nearer to x than the
\* selected one, and every earlier sample is strictly farther; 0.137 s on
\* the axis 0, 0.05, 0.10, 0.15, 0.20 selects index 3.
C4_NearestSample ==
    (/\ last_event.type \in {"click", "hover"}
     /\ last_event.payload.kind = "point"
     /\ last_event.type = "hover" => "realtime" \in last_event.realtime) =>
        LET x == last_event.payload.x
            i == selected_time_idx
            T == Len(time_values)
        IN  /\ T >= 1
            /\ i \in 0..(T - 1)
            /\ \A j \in 0..(T - 1) :
                   Abs(time_values[i + 1] - x) <= Abs(time_values[j + 1] - x)
            /\ \A j \in 0..(i - 1) :
                   Abs(time_values[j + 1] - x) > Abs(time_values[i + 1] - x)
            /\ (time_values = <<0, 50, 100, 150, 200>> /\ x = 137) => i = 3

\* The click of the example: 0.137 s on the five-sample axis selects 3.
C4_Witness ==
    /\ last_event.type = "click"
    /\ last_event.payload.kind = "point"
    /\ last_event.payload.x = 137
    /\ time_values = <<0, 50, 100, 150, 200>>
    /\ selected_time_idx = 3

\* C5: a hover never changes the selected source or the real-time switch,
\* and with the switch off it does not change the selected time either.
C5_HoverOnlyInRealtime ==
    last_event.type = "hover" =>
        /\ selected_source_idx = last_event.source
        /\ realtime_value = last_event.realtime
        /\ "realtime" \notin last_event.realtime =>
               selected_time_idx = last_event.time

\* A hover in real-time mode moved the selected time while a source was
\* selected.
C5_Witness ==
    /\ last_event.type = "hover"
    /\ "realtime" \in last_event.realtime
    /\ last_event.source /= None
    /\ selected_source_idx = last_event.source
    /\ selected_time_idx /= last_event.time

\* C6: through every sequence of clicks, hovers and switch flips, and the
\* re-renders they trigger, the data model keeps the values it had at the
\* end of construction.
C6_DataModelUnchanged ==
    DataModel = constructed

\* A click moved the time, the butterfly plot was redrawn from data it had
\* to rescale by 1e6, and the stored data is what construction left.
C6_Witness ==
    /\ last_event.type = "click"
    /\ selected_time_idx /= last_event.time
    /\ butterfly_fig.scale_exponent = 6
    /\ butterfly_fig.vline = <<time_values[selected_time_idx + 1]>>
    /\ butterfly_data = constructed.butterfly_data

\* The column of source s in the heatmap of figure f: the rank of its
\* horizontal position among the positions of the sources f renders.
HeatmapColumn(f, view_name, s) ==
    Cardinality({ProjX(view_name, source_coords[r + 1]) :
                    r \in {q \in f.sources :
                              ProjX(view_name, source_coords[q + 1]) <=
                                  ProjX(view_name, source_coords[s + 1])}})

\* The row of source s in the heatmap of figure f, likewise.
HeatmapRow(f, view_name, s) ==
    Cardinality({ProjY(view_name, source_coords[r + 1]) :
                    r \in {q \in f.sources :
                              ProjY(view_name, source_coords[q + 1]) <=
                                  ProjY(view_name, source_coords[s + 1])}})

\* Sources s and r project to the same 2D position in the view.
SamePosition(view_name, s, r) ==
    /\ ProjX(view_name, source_coords[s + 1]) = ProjX(view_name, source_coords[r + 1])
    /\ ProjY(view_name, source_coords[s + 1]) = ProjY(view_name, source_coords[r + 1])

\* C7: in every view of a rendered time slice the heatmap has one column per
\* distinct horizontal position and one row per distinct vertical position of
\* the rendered sources, the cell of a position holds the largest activity
\* of the sources projected there, and a cell without a source holds no
\* value.
C7_MaxPerCell ==
    request.via = "direct" =>
        \A view_name \in DOMAIN brain_plots :
            LET f == brain_plots[view_name]
                activity == ActivityMagnitude(Viz, request.time_idx)
                column == [s \in f.sources |-> HeatmapColumn(f, view_name, s)]
                row == [s \in f.sources |-> HeatmapRow(f, view_name, s)]
                InCell(bx, by) ==
                    {s \in f.sources : column[s] = bx /\ row[s] = by}
            IN  /\ f.kind = "brain"
                /\ Len(f.x_centers) =
                       Cardinality({ProjX(view_name, source_coords[s + 1]) :
                                       s \in f.sources})
                /\ Len(f.y_centers) =
                       Cardinality({ProjY(view_name, source_coords[s + 1]) :
                                       s \in f.sources})
                /\ DOMAIN f.z = DOMAIN f.y_centers
                /\ \A by \in DOMAIN f.z :
                       /\ DOMAIN f.z[by] = DOMAIN f.x_centers
                       /\ \A bx \in DOMAIN f.z[by] :
                              f.z[by][bx] =
                                  IF InCell(bx, by) = {} THEN NaN
                                  ELSE <<SetMax({activity[s + 1] :
                                                    s \in InCell(bx, by)})>>

\* A view in which two sources of different activity share a position and
\* another cell of the grid has no source.
C7_Witness ==
    /\ request.via = "direct"
    /\ \E view_name \in DOMAIN brain_plots :
           LET f == brain_plots[view_name]
               activity == ActivityMagnitude(Viz, request.time_idx)
           IN  /\ \E by \in DOMAIN f.z : \E bx \in DOMAIN f.z[by] :
                      f.z[by][bx] = NaN
               /\ \E s \in f.sources : \E r \in f.sources :
                      /\ s /= r
                      /\ SamePosition(view_name, s, r)
                      /\ activity[s + 1] < activity[r + 1]
                      /\ f.z[HeatmapRow(f, view_name, r)]
                            [HeatmapColumn(f, view_name, r)] = <<activity[r + 1]>>

\* C8: for vector data, under every arrow-threshold policy, no two arrows of
\* a view start at the same position, and every arrow is the arrow of a
\* rendered source, drawn at that source's position, whose 3D activity is
\* the value of the heatmap cell of that position.
C8_ArrowMatchesColour ==
    (request.via = "direct" /\ Len(glass_brain_data[1]) = 3) =>
        \A view_name \in DOMAIN brain_plots :
            LET f == brain_plots[view_name]
                activity == ActivityMagnitude(Viz, request.time_idx)
            IN  /\ \A a \in f.arrows : \A b \in f.arrows :
                       (a.x = b.x /\ a.y = b.y) => a = b
                /\ \A a \in f.arrows :
                       /\ a.src \in f.sources
                       /\ a.x = ProjX(view_name, source_coords[a.src + 1])
                       /\ a.y = ProjY(view_name, source_coords[a.src + 1])
                       /\ a.activity = activity[a.src + 1]
                       /\ f.z[HeatmapRow(f, view_name, a.src)]
                             [HeatmapColumn(f, view_name, a.src)] =
                              <<activity[a.src + 1]>>

\* Under the "auto" policy an arrow is drawn for a source that shares its
\* position with a later source of smaller, non-zero activity.
C8_Witness ==
    /\ request.via = "direct"
    /\ Len(glass_brain_data[1]) = 3
    /\ arrow_threshold.kind = "auto"
    /\ \E view_name \in DOMAIN brain_plots :
           LET f == brain_plots[view_name]
               activity == ActivityMagnitude(Viz, request.time_idx)
           IN  \E a \in f.arrows : \E r \in f.sources :
                   /\ r > a.src
                   /\ SamePosition(view_name, a.src, r)
                   /\ activity[r + 1] > 0
                   /\ activity[r + 1] < activity[a.src + 1]

\* C9: the left_hemisphere view renders exactly the sources with x <= 0 and
\* the right_hemisphere view exactly those with x >= 0.
C9_HemisphereFilter ==
    request.via = "direct" =>
        /\ "left_hemisphere" \in DOMAIN brain_plots =>
               brain_plots["left_hemisphere"].sources =
                   {s \in 0..(Len(source_coords) - 1) : source_coords[s + 1][1] <= 0}
        /\ "right_hemisphere" \in DOMAIN brain_plots =>
               brain_plots["right_hemisphere"].sources =
                   {s \in 0..(Len(source_coords) - 1) : source_coords[s + 1][1] >= 0}

\* C10: the activity the renderer bins for source n at time index t is the
\* stored magnitude butterfly_data[n, t]; in particular the heatmap cell of
\* a source that is alone at its position shows that entry.
C10_BinnedActivityIsMagnitude ==
    request.via = "direct" =>
        /\ \A n \in DOMAIN butterfly_data :
               ActivityMagnitude(Viz, request.time_idx)[n] =
                   butterfly_data[n][request.time_idx + 1]
        /\ \A view_name \in DOMAIN brain_plots :
               LET f == brain_plots[view_name]
               IN  \A s \in f.sources :
                       (\A r \in f.sources : SamePosition(view_name, s, r) => r = s) =>
                           f.z[HeatmapRow(f, view_name, s)]
                              [HeatmapColumn(f, view_name, s)] =
                               <<butterfly_data[s + 1][request.time_idx + 1]>>

\* C11: within one viewer, the heatmap of every view at every time index and
\* the standalone colour bar of the horizontal layout carry the same
\* (vmin, vmax) pair: the global colour range computed by the constructor.
C11_SharedColourRange ==
    /\ global_vmin = constructed.global_vmin
    /\ global_vmax = constructed.global_vmax
    /\ \A view_name \in DOMAIN brain_plots :
           brain_plots[view_name].kind = "brain" =>
               /\ brain_plots[view_name].zmin = constructed.global_vmin
               /\ brain_plots[view_name].zmax = constructed.global_vmax
    /\ \A i \in DOMAIN brain_figs :
           brain_figs[i].kind = "brain" =>
               /\ brain_figs[i].zmin = constructed.global_vmin
               /\ brain_figs[i].zmax = constructed.global_vmax
    /\ colorbar_fig /= <<>> =>
           /\ colorbar_fig.cmin = constructed.global_vmin
           /\ colorbar_fig.cmax = constructed.global_vmax

\* The second slice of a horizontal viewer with a vmax argument below the
\* data maximum has been rendered: a heatmap holds a value above vmax, and
\* the colour bar exists.
C11_Witness ==
    /\ request /= Idle
    /\ request.time_idx = 1
    /\ layout_mode = "horizontal"
    /\ colorbar_fig /= <<>>
    /\ user_vmax.given
    /\ Len(brain_views) = 3
    /\ \A view_name \in Range(brain_views) :
           /\ view_name \in DOMAIN brain_plots
           /\ brain_plots[view_name].kind = "brain"
    /\ \E view_name \in DOMAIN brain_plots :
           \E by \in DOMAIN brain_plots[view_name].z :
               \E bx \in DOMAIN brain_plots[view_name].z[by] :
                   /\ brain_plots[view_name].z[by][bx] /= NaN
                   /\ brain_plots[view_name].z[by][bx][1] > global_vmax

\* C12: the global colour range of a viewer has vmax >= vmin and is never
\* zero-width, whatever the activity tensor and whatever the vmax argument
\* (absent, negative, zero or positive).
C12_ColourRangeNotEmpty ==
    status = "ready" =>
        /\ global_vmax >= global_vmin
        /\ global_vmax - global_vmin > 0

\* A viewer constructed with a vmax argument that is zero or negative, on a
\* tensor that is not zero.
C12_Witness ==
    /\ status = "ready"
    /\ user_vmax.given
    /\ user_vmax.value <= 0
    /\ \E s \in DOMAIN butterfly_data : butterfly_data[s][1] > 0
    /\ global_vmax > global_vmin

\* The input tensor holds the same value for every source, component and
\* time sample.
IsConstantTensor ==
    /\ status = "ready"
    /\ \A s \in DOMAIN glass_brain_data :
           \A c \in DOMAIN glass_brain_data[s] :
               \A k \in DOMAIN glass_brain_data[s][c] :
                   glass_brain_data[s][c][k] = glass_brain_data[1][1][1]

\* C13 as stated: a constant input tensor, zero or not, with no vmax
\* argument gives vmax = vmin + 1.0 exactly.
C13_ConstantTensorGuard ==
    (IsConstantTensor /\ ~user_vmax.given) =>
        global_vmax = global_vmin + 10000

\* C13 as amended: with no vmax argument, a tensor that is zero everywhere
\* gives vmax = vmin + 1.0 exactly, and a constant tensor of any other value
\* gives vmin = 0 and vmax = the magnitude of that value.
C13_ZeroTensorGuard ==
    (IsConstantTensor /\ ~user_vmax.given) =>
        /\ global_vmin = 0
        /\ global_vmax =
               IF glass_brain_data[1][1][1] = 0 THEN global_vmin + 10000
               ELSE Norm([c \in DOMAIN glass_brain_data[1] |->
                             glass_brain_data[1][c][1]])

\* A viewer on an all-zero tensor, constructed without a vmax argument.
C13_Witness ==
    /\ IsConstantTensor
    /\ ~user_vmax.given
    /\ glass_brain_data[1][1][1] = 0
    /\ global_vmax = global_vmin + 10000

\* The ranges _calculate_view_ranges returned to the constructor, before
\* the boxes were unified.
RawViewRanges == calculate_view_ranges(source_coords, brain_views)

\* The left and right hemisphere boxes of r are the same box.
SameBox(r) ==
    ({"left_hemisphere", "right_hemisphere"} \subseteq DOMAIN r) =>
        /\ r["left_hemisphere"].x = r["right_hemisphere"].x
        /\ r["left_hemisphere"].y = r["right_hemisphere"].y

\* The left and right hemisphere boxes of r have the same y range and x
\* ranges that are mirror images of each other.
MirroredBox(r) ==
    ({"left_hemisphere", "right_hemisphere"} \subseteq DOMAIN r) =>
        /\ r["left_hemisphere"].y = r["right_hemisphere"].y
        /\ r["left_hemisphere"].x[1] = 0 - r["right_hemisphere"].x[2]
        /\ r["left_hemisphere"].x[2] = 0 - r["right_hemisphere"].x[1]

\* C14 as stated: the axis ranges of the left_hemisphere and the
\* right_hemisphere view are numerically identical on the x and on the y
\* axis, for every coordinate set.
C14_HemisphereRangesIdentical ==
    status = "ready" => SameBox(RawViewRanges)

\* C14 as amended: the two hemisphere views have the same y range and x
\* ranges of the same width that mirror each other (left = [-max, -min] of
\* right), as computed and as stored after the boxes are unified.
C14_HemisphereRangesMirrored ==
    status = "ready" =>
        /\ MirroredBox(RawViewRanges)
        /\ MirroredBox(view_ranges)
        /\ MirroredBox(constructed.view_ranges)

\* A viewer with both hemisphere views whose sources do not lie
\* symmetrically about y = 0: the two x ranges differ.
C14_Witness ==
    /\ status = "ready"
    /\ {"left_hemisphere", "right_hemisphere"} \subseteq DOMAIN view_ranges
    /\ \E s \in DOMAIN source_coords : source_coords[s][2] /= 0
    /\ view_ranges["left_hemisphere"].x /= view_ranges["right_hemisphere"].x
    /\ RawViewRanges["left_hemisphere"].x /= RawViewRanges["right_hemisphere"].x

\* The projected coordinates of all sources on the two axes of a view.
AxisValues(view_name) ==
    [x |-> {RangeCoordX(view_name, source_coords[s]) : s \in DOMAIN source_coords},
     y |-> {RangeCoordY(view_name, source_coords[s]) : s \in DOMAIN source_coords}]

\* range is [min - padding, max + padding] of vals with a padding of 5 % of
\* the extent, or of 0.01 when the extent is zero (range in 1/40 unit).
PaddedBy5PercentOrEpsilon(range, vals) ==
    LET extent == SetMax(vals) - SetMin(vals)
    IN  /\ range[1] + range[2] = 40 * (SetMin(vals) + SetMax(vals))
        /\ range[2] - range[1] =
               IF extent > 0 THEN 40 * extent + 2 * (2 * extent)
               ELSE 2 * (40 * 100000)

\* C15: for every view and every non-empty coordinate set, a single point
\* or points that agree on an axis included, the axis range has min < max on
\* both axes: the padding is 5 % of the extent when that is positive and a
\* fixed positive epsilon otherwise.
C15_RangesNotEmpty ==
    status = "ready" =>
        /\ \A view_name \in DOMAIN RawViewRanges :
               /\ RawViewRanges[view_name].x[1] < RawViewRanges[view_name].x[2]
               /\ RawViewRanges[view_name].y[1] < RawViewRanges[view_name].y[2]
               /\ PaddedBy5PercentOrEpsilon(RawViewRanges[view_name].x,
                                            AxisValues(view_name).x)
               /\ PaddedBy5PercentOrEpsilon(RawViewRanges[view_name].y,
                                            AxisValues(view_name).y)
        /\ \A view_name \in DOMAIN view_ranges :
               /\ view_ranges[view_name].x[1] < view_ranges[view_name].x[2]
               /\ view_ranges[view_name].y[1] < view_ranges[view_name].y[2]

\* A viewer whose sources all sit on one position, rendered for the second
\* time index: every axis of every view has zero extent.
C15_Witness ==
    /\ status = "ready"
    /\ request /= Idle
    /\ \A s \in DOMAIN source_coords : source_coords[s] = source_coords[1]
    /\ Len(brain_views) = 4
    /\ \A view_name \in DOMAIN view_ranges :
           view_ranges[view_name].x[1] < view_ranges[view_name].x[2]

\* A request on vector data in mode lr under the numeric threshold 0.0.
LrRequestAtThresholdZero ==
    /\ status = "ready"
    /\ request /= Idle
    /\ has_space
    /\ display_mode = "lr"
    /\ arrow_threshold = [kind |-> "value", value |-> 0]

\* The sources (0-based) assigned to a hemisphere view: x <= 0 for the left
\* one, x >= 0 for the right one.
AssignedSources(view_name) ==
    {s - 1 : s \in {r \in DOMAIN source_coords :
        IF view_name = "left_hemisphere" THEN source_coords[r][1] <= 0
        ELSE source_coords[r][1] >= 0}}

\* Magnitude of the vector of source i (0-based) in the requested slice.
RequestedMagnitude(i) ==
    ActivityMagnitude(Viz, request.time_idx)[i + 1]

\* The request returned exactly the two hemisphere figures.
TwoHemisphereFigures ==
    /\ DOMAIN brain_plots = {"left_hemisphere", "right_hemisphere"}
    /\ \A view_name \in DOMAIN brain_plots : brain_plots[view_name].kind = "brain"

\* C16 as stated: vector data, mode lr, arrow_threshold 0.0, any time index:
\* exactly two view figures, each with an arrow for every source assigned to
\* its hemisphere, sources with x = 0 having an arrow in both.
C16_ArrowForEverySource ==
    LrRequestAtThresholdZero =>
        /\ TwoHemisphereFigures
        /\ \A view_name \in DOMAIN brain_plots :
               \A i \in AssignedSources(view_name) :
                   \E a \in brain_plots[view_name].arrows : a.src = i

\* C16 as amended: exactly two view figures; each has, for every source
\* assigned to its hemisphere whose vector magnitude exceeds 0, an arrow at
\* the projected position of that source, the arrow of a source at least as
\* active (one arrow per position); a source of magnitude 0 has no arrow;
\* sources with x = 0 are served in both figures.
C16_ArrowAtEveryActivePosition ==
    LrRequestAtThresholdZero =>
        /\ TwoHemisphereFigures
        /\ \A view_name \in DOMAIN brain_plots :
               /\ \A i \in AssignedSources(view_name) :
                      RequestedMagnitude(i) > 0 =>
                          \E a \in brain_plots[view_name].arrows :
                              /\ Round6(a.x) = Round6(ProjX(view_name, source_coords[i + 1]))
                              /\ Round6(a.y) = Round6(ProjY(view_name, source_coords[i + 1]))
                              /\ a.activity >= RequestedMagnitude(i)
               /\ \A a \in brain_plots[view_name].arrows :
                      RequestedMagnitude(a.src) > 0
               /\ \A a, b \in brain_plots[view_name].arrows :
                      (Round6(a.x) = Round6(b.x) /\ Round6(a.y) = Round6(b.y)) => a = b

\* A request on three sources with non-zero vectors, one of them on the
\* midline with an arrow of its own in both figures.
C16_Witness ==
    /\ LrRequestAtThresholdZero
    /\ request.time_idx = 1
    /\ \A i \in 0..(Len(source_coords) - 1) : RequestedMagnitude(i) > 0
    /\ \E i \in AssignedSources("left_hemisphere") \cap AssignedSources("right_hemisphere") :
           /\ \E j \in AssignedSources("left_hemisphere") : source_coords[j + 1][1] < 0
           /\ \E j \in AssignedSources("right_hemisphere") : source_coords[j + 1][1] > 0
           /\ \A view_name \in DOMAIN brain_plots :
                  \E a \in brain_plots[view_name].arrows : a.src = i

\* C17: on scalar data no view figure contains an arrow, batch arrow or
\* highlighted arrow of the selected source, for every view, time index,
\* threshold policy and selected source; a figure holds the heatmap and at
\* most the selection marker.
C17_NoArrowsOnScalarData ==
    (status = "ready" /\ ~has_space) =>
        /\ \A view_name \in DOMAIN brain_plots :
               /\ brain_plots[view_name].kind = "brain"
               /\ brain_plots[view_name].z /= <<>>
               /\ brain_plots[view_name].arrows = {}
               /\ brain_plots[view_name].selected_arrow = <<>>
        /\ \A i \in DOMAIN brain_figs :
               /\ brain_figs[i].kind = "brain"
               /\ brain_figs[i].z /= <<>>
               /\ brain_figs[i].arrows = {}
               /\ brain_figs[i].selected_arrow = <<>>

\* A request on scalar data under a numeric threshold with a selected source
\* of non-zero activity that is marked in every view.
C17_Witness ==
    /\ status = "ready"
    /\ ~has_space
    /\ request /= Idle
    /\ request.source_idx /= None
    /\ arrow_threshold.kind = "value"
    /\ Len(brain_views) = 3
    /\ RequestedMagnitude(request.source_idx) > arrow_threshold.value
    /\ \A view_name \in DOMAIN brain_plots :
           /\ brain_plots[view_name].marker /= <<>>
           /\ brain_plots[view_name].arrows = {}

\* The butterfly figure of a viewer on the same data and the same selected
\* time index, constructed with the other value of show_max_only.
TwinButterfly ==
    create_butterfly_plot([Viz EXCEPT !.show_max_only = ~show_max_only],
                          selected_time_idx)

\* C18: on identical data and the same time index, the butterfly figure built
\* with show_max_only=True and the one built with show_max_only=False hold
\* the same mean and max trace values at every time sample, both always hold
\* these two traces, and they differ only in the individual source traces,
\* which are absent when show_max_only is True.
C18_MaxOnlyKeepsMeanAndMax ==
    status = "ready" =>
        LET max_only == IF show_max_only THEN butterfly_fig ELSE TwinButterfly
            full == IF show_max_only THEN TwinButterfly ELSE butterfly_fig
        IN  /\ max_only.mean_activity = full.mean_activity
            /\ max_only.max_activity = full.max_activity
            /\ DOMAIN max_only.mean_activity = DOMAIN time_values
            /\ DOMAIN max_only.max_activity = DOMAIN time_values
            /\ DOMAIN full.mean_activity = DOMAIN time_values
            /\ DOMAIN full.max_activity = DOMAIN time_values
            /\ max_only.traces = <<>>
            /\ DOMAIN full.traces = IndicesToPlot(Len(butterfly_data))
            /\ [max_only EXCEPT !.traces = <<>>] = [full EXCEPT !.traces = <<>>]

\* A viewer constructed with show_max_only=True after a click that moved the
\* selected time: its figure has no individual traces and a mean trace that
\* is not flat zero.
C18_Witness ==
    /\ status = "ready"
    /\ show_max_only
    /\ last_event.type = "click"
    /\ selected_time_idx > 0
    /\ butterfly_fig.traces = <<>>
    /\ butterfly_fig.vline = <<time_values[selected_time_idx + 1]>>
    /\ \E k \in DOMAIN butterfly_fig.mean_activity :
           butterfly_fig.mean_activity[k][1] /= 0
    /\ TwinButterfly.traces /= <<>>

\* C19: when the display-mode token or the layout-mode token is not
\* supported, the constructor fails before any data is loaded, before the
\* view ranges or the colour range are computed, before the layout is built
\* and before any callback is registered: the attributes keep their initial
\* values, there is no figure, and no request or event is ever served.
C19_ValidationStopsInit ==
    (display_mode \notin SupportedModes \/ layout_mode \notin LAYOUTS) =>
        /\ status = "error"
        /\ glass_brain_data = <<>>
        /\ butterfly_data = <<>>
        /\ source_coords = <<>>
        /\ time_values = <<>>
        /\ brain_views = <<>>
        /\ view_ranges = <<>>
        /\ global_vmin = 0
        /\ global_vmax = 10000
        /\ butterfly_fig = <<>>
        /\ brain_figs = <<>>
        /\ colorbar_fig = <<>>
        /\ brain_plots = <<>>
        /\ request = Idle
        /\ ~ENABLED (DirectCall \/ PageLoad \/ Click \/ Hover \/ ToggleRealtime)

\* A constructor call with a permutation of a supported mode that is not in
\* the table, in a supported layout.
C19_Witness ==
    /\ display_mode = "lrz"
    /\ layout_mode \in LAYOUTS
    /\ status = "error"
    /\ glass_brain_data = <<>>

\* C20: loading fails with a data-shape error whenever the number of source
\* coordinates differs from the number of sources of the activity array, or
\* the length of the time axis differs from its number of time samples: no
\* viewer is constructed from such input.
C20_ShapeMismatchRejected ==
    status = "ready" =>
        /\ Len(source_coords) = Len(glass_brain_data)
        /\ Len(time_values) = Len(glass_brain_data[1][1])

\* C23: when the constructor is given a vmin, that value is the lower bound
\* of the colour range of all projections at all time points: the global
\* vmin, the zmin of every heatmap and the cmin of the colour bar equal it.
C23_UserVminIsLowerBound ==
    (status = "ready" /\ user_vmin.given) =>
        /\ global_vmin = user_vmin.value
        /\ \A view_name \in DOMAIN brain_plots :
               brain_plots[view_name].kind = "brain" =>
                   brain_plots[view_name].zmin = user_vmin.value
        /\ \A i \in DOMAIN brain_figs :
               brain_figs[i].kind = "brain" => brain_figs[i].zmin = user_vmin.value
        /\ colorbar_fig /= <<>> => colorbar_fig.cmin = user_vmin.value

\* The panel widths of a layout configuration.
PanelWidths(config) == <<config.butterfly_width, config.brain_width>>

\* What a layout configuration holds besides widths, heights, margins and
\* padding.
Arrangement(config) == <<config.arrangement, config.num_views, config.brain_views>>

\* C24 (as stated): for every layout mode and every view count, the notebook
\* and the browser layouts have the same panel widths: switching the
\* environment changes pixel heights, margins and padding only.
C24_SameWidthsInBothEnvironments ==
    [][is_jupyter_mode' /= is_jupyter_mode =>
          /\ PanelWidths(current_layout_config') = PanelWidths(current_layout_config)
          /\ Arrangement(current_layout_config') = Arrangement(current_layout_config)]_vars

\* C24 (amended): the notebook and the browser layouts have the same panel
\* widths, except that three views below the butterfly plot are 32% wide in
\* the browser and 30% wide in a notebook.
C24_SameWidthsButThreeViewsVertical ==
    [][is_jupyter_mode' /= is_jupyter_mode =>
          /\ Arrangement(current_layout_config') = Arrangement(current_layout_config)
          /\ current_layout_config'.butterfly_width = current_layout_config.butterfly_width
          /\ IF current_layout_config.arrangement = "vertical"
                /\ current_layout_config.num_views = 3
             THEN /\ current_layout_config.brain_width = 3200
                  /\ current_layout_config'.brain_width = 3000
             ELSE current_layout_config'.brain_width = current_layout_config.brain_width]_vars

\* A four-view horizontal layout rebuilt for a notebook: the widths of the
\* browser, the heights of the notebook.
C24_Witness ==
    /\ status = "ready"
    /\ is_jupyter_mode
    /\ current_layout_config.arrangement = "horizontal"
    /\ current_layout_config.num_views = 4
    /\ current_layout_config.brain_width = 1750
    /\ current_layout_config.butterfly_width = 2500
    /\ current_layout_config.plot_height = 200

\* The width of an axis range.
Width(range) == range[2] - range[1]

\* The largest width, over both axes and all views, of the boxes r.
LargestWidth(r) == SetMax({Width(r[v].x) : v \in DOMAIN r} \cup {Width(r[v].y) : v \in DOMAIN r})

\* The boxes u are the boxes r, each recentred to the largest width of r.
UnifiedFrom(u, r) ==
    /\ DOMAIN u = DOMAIN r
    /\ \A v \in DOMAIN r :
          /\ Width(u[v].x) = LargestWidth(r)
          /\ Width(u[v].y) = LargestWidth(r)
          /\ u[v].x[1] + u[v].x[2] = r[v].x[1] + r[v].x[2]
          /\ u[v].y[1] + u[v].y[2] = r[v].y[1] + r[v].y[2]

StrictlyInside(view_name, fig, x_range, y_range) ==
    \A i \in fig.sources :
        /\ x_range[1] < 40 * ProjX(view_name, source_coords[i + 1])
        /\ 40 * ProjX(view_name, source_coords[i + 1]) < x_range[2]
        /\ y_range[1] < 40 * ProjY(view_name, source_coords[i + 1])
        /\ 40 * ProjY(view_name, source_coords[i + 1]) < y_range[2]

\* C28: the projected coordinate of every source a view renders lies
\* strictly inside the fixed axis range of the view on both axes, for the
\* range as computed and for the range after unification that the figure
\* carries.
C28_SourcesInsideAxisRange ==
    status = "ready" =>
        \A view_name \in DOMAIN brain_plots :
            brain_plots[view_name].kind = "brain" =>
                /\ brain_plots[view_name].x_range = view_ranges[view_name].x
                /\ brain_plots[view_name].y_range = view_ranges[view_name].y
                /\ StrictlyInside(view_name, brain_plots[view_name],
                                  brain_plots[view_name].x_range,
                                  brain_plots[view_name].y_range)
                /\ StrictlyInside(view_name, brain_plots[view_name],
                                  RawViewRanges[view_name].x,
                                  RawViewRanges[view_name].y)

\* A hemisphere view rendered after the instance was prepared for a
\* notebook, with a source at the smallest and another at the largest
\* projected position of the view.
C28_Witness ==
    /\ status = "ready"
    /\ request /= Idle
    /\ is_jupyter_mode
    /\ "left_hemisphere" \in DOMAIN brain_plots
    /\ brain_plots["left_hemisphere"].kind = "brain"
    /\ \E i, j \in brain_plots["left_hemisphere"].sources :
          /\ source_coords[i + 1][3] = SetMin(AxisValues("left_hemisphere").y)
          /\ source_coords[j + 1][3] = SetMax(AxisValues("left_hemisphere").y)
          /\ source_coords[i + 1][3] < source_coords[j + 1][3]

\* The projected positions, on one axis, of the sources fig renders.
RenderedX(view_name, fig) == SortedSeq({ProjX(view_name, source_coords[i + 1]) : i \in fig.sources})

RenderedY(view_name, fig) == SortedSeq({ProjY(view_name, source_coords[i + 1]) : i \in fig.sources})

\* The column and the row of the heatmap cell the activity of source i is
\* binned into.
CellOf(view_name, fig, i) ==
    <<BinOf(ProjX(view_name, source_coords[i + 1]), GridEdges(RenderedX(view_name, fig))),
      BinOf(ProjY(view_name, source_coords[i + 1]), GridEdges(RenderedY(view_name, fig)))>>

\* C29: for every set of projected coordinates, uniformly spaced or not, the
\* heatmap cell that carries a source's activity is centred at the
\* projected coordinate of the source on both axes, the place where its
\* arrow and the selection marker are drawn.
C29_CellCentredAtSource ==
    status = "ready" =>
        \A view_name \in DOMAIN brain_plots :
            brain_plots[view_name].kind = "brain" =>
                LET fig == brain_plots[view_name]
                IN  /\ \A i \in fig.sources :
                           LET cell == CellOf(view_name, fig, i)
                           IN  /\ fig.z[cell[2]][cell[1]] /= NaN
                               /\ fig.x_centers[cell[1]] =
                                      4 * ProjX(view_name, source_coords[i + 1])
                               /\ fig.y_centers[cell[2]] =
                                      4 * ProjY(view_name, source_coords[i + 1])
                    /\ \A a \in fig.arrows :
                           /\ a.x = ProjX(view_name, source_coords[a.src + 1])
                           /\ a.y = ProjY(view_name, source_coords[a.src + 1])
                    /\ fig.marker /= <<>> =>
                           fig.marker =
                               <<ProjX(view_name, source_coords[request.source_idx + 1]),
                                 ProjY(view_name, source_coords[request.source_idx + 1])>>

\* C30: with arrow_threshold = 'auto' the threshold applied at a time index
\* is the same in every view of the request, so a source rendered in two
\* views passes the threshold in both or in neither: the arrow of the
\* selected source, which is drawn exactly when that source passes, is
\* drawn in all the views that render the source or in none.
C30_AutoThresholdSameInEveryView ==
    (status = "ready" /\ arrow_threshold.kind = "auto" /\ has_space
     /\ request /= Idle /\ request.source_idx /= None) =>
        \A v, w \in DOMAIN brain_plots :
            (/\ brain_plots[v].kind = "brain"
             /\ brain_plots[w].kind = "brain"
             /\ request.source_idx \in brain_plots[v].sources
             /\ request.source_idx \in brain_plots[w].sources) =>
                (brain_plots[v].selected_arrow = <<>>) =
                    (brain_plots[w].selected_arrow = <<>>)

\* C25: a click with a valid payload sets the selected time index to the
\* nearest sample and the selected source to the source of the clicked
\* trace (none when the trace carries none); it switches real-time mode off
\* when that is on and leaves the switch alone when it is off; while the
\* switch is off no hover changes the selection, and only a toggle turns
\* the switch on again.
C25_ClickLocksSelection ==
    [][/\ (last_event'.type = "click" /\ last_event'.payload.kind = "point") =>
              /\ selected_time_idx' = ArgMinAbs(time_values, last_event'.payload.x)
              /\ selected_source_idx' = last_event'.payload.customdata
              /\ realtime_value' = {}
              /\ "realtime" \notin realtime_value => realtime_value' = realtime_value
       /\ (last_event'.type = "hover" /\ "realtime" \notin realtime_value) =>
              /\ selected_time_idx' = selected_time_idx
              /\ selected_source_idx' = selected_source_idx
              /\ realtime_value' = realtime_value
       /\ ("realtime" \notin realtime_value /\ "realtime" \in realtime_value') =>
              last_event'.type = "toggle"]_vars

\* A click on a source trace away from the first sample while real-time
\* mode was on: the selection is set and the switch is off.
C25_Witness ==
    /\ last_event.type = "click"
    /\ last_event.payload.kind = "point"
    /\ "realtime" \in last_event.realtime
    /\ realtime_value = {}
    /\ selected_source_idx /= None
    /\ selected_source_idx = last_event.payload.customdata
    /\ selected_time_idx > 0
    /\ selected_time_idx /= last_event.time

\* C26: starting from time index 0 and no source, after any sequence of
\* clicks, hovers and toggles of the real-time switch, events with empty or
\* malformed payloads included, the selected time index lies in 0..T-1 and
\* the selected source is none or the index of an existing source.
C26_SelectionInRange ==
    status = "ready" =>
        /\ selected_time_idx \in 0..(Len(time_values) - 1)
        /\ \/ selected_source_idx = None
           \/ selected_source_idx \in 0..(Len(source_coords) - 1)
        /\ last_event.type \in {"click", "hover"} /\ last_event.payload.kind /= "point" =>
               /\ selected_time_idx = last_event.time
               /\ selected_source_idx = last_event.source
               /\ realtime_value = last_event.realtime

\* The last source of the plot selected at the last sample, followed by an
\* event with a malformed payload.
C26_Witness ==
    /\ last_event.type \in {"click", "hover"}
    /\ last_event.payload.kind = "malformed"
    /\ Len(time_values) > 1
    /\ selected_time_idx = Len(time_values) - 1
    /\ selected_source_idx = Len(source_coords) - 1

\* C21: export isolates failures per asset: when the write of one asset
\* fails, every remaining asset is still written and reported, so the
\* files of the result are exactly the assets whose write did not fail.
C21_ExportIsolatesFailures ==
    export_args.called =>
        /\ \A a \in ExportAssets(brain_views) :
               a \notin export_args.failing =>
                   /\ a \in DOMAIN export_result.files
                   /\ \E w \in disk : w.now = export_args.now /\ w.asset = a
        /\ \A a \in export_args.failing : a \notin DOMAIN export_result.files

\* C22: export file names avoid collisions: a successful export writes one
\* file per resolved view plus one butterfly file, and any two files written
\* into the same directory with the same format, by one call or by two,
\* have different paths.
C22_ExportPathsDistinct ==
    /\ (export_args.called /\ export_result.status = "success") =>
           /\ DOMAIN export_result.files = ExportAssets(brain_views)
           /\ \A a \in ExportAssets(brain_views) :
                  \E w \in disk : /\ w.now = export_args.now
                                  /\ w.asset = a
                                  /\ w.path = export_result.files[a]
    /\ \A w1, w2 \in disk :
           (/\ <<w1.now, w1.asset>> /= <<w2.now, w2.asset>>
            /\ w1.path.dir = w2.path.dir
            /\ w1.path.file[3] = w2.path.file[3]) =>
               w1.path /= w2.path

====
